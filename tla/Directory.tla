------------------------------ MODULE Directory ------------------------------
(***************************************************************************)
(* What the in-process service table of src/service.c promises to the code *)
(* that calls it: a set of services, each under a name nobody else has and *)
(* an id that was never handed out before.  Nothing here says how the      *)
(* services are stored; ServiceRegistry and RegistryThreads implement it.  *)
(***************************************************************************)
CONSTANTS
  Names,   \* the names a service may carry
  Ids,     \* the ids service_register may return
  Times    \* the values time(NULL) may take

VARIABLES
  entries, \* the registered services
  used     \* every id handed out so far

vars == <<entries, used>>

Service == [id : Ids, name : Names, last_heartbeat : Times]

TypeOK ==
  /\ entries \subseteq Service
  /\ used \subseteq Ids

Init ==
  /\ entries = {}
  /\ used = {}

(* A new service: its name is free and its id is fresh. *)
Register(id, name, t) ==
  /\ id \notin used
  /\ \A e \in entries : e.name # name
  /\ entries' = entries \cup {[id |-> id, name |-> name, last_heartbeat |-> t]}
  /\ used' = used \cup {id}

Present(id) == \E e \in entries : e.id = id

(* The service with this id leaves; the others stay as they are. *)
Unregister(id) ==
  /\ Present(id)
  /\ entries' = {e \in entries : e.id # id}
  /\ UNCHANGED used

Stamped(e, id, t) == IF e.id = id THEN [e EXCEPT !.last_heartbeat = t] ELSE e

(* The service with this id is stamped; the others keep their stamps. *)
Heartbeat(id, t) ==
  /\ Present(id)
  /\ entries' = {Stamped(e, id, t) : e \in entries}
  /\ UNCHANGED used

Next ==
  \/ \E id \in Ids, name \in Names, t \in Times : Register(id, name, t)
  \/ \E id \in Ids : Unregister(id)
  \/ \E id \in Ids, t \in Times : Heartbeat(id, t)

Spec == Init /\ [][Next]_vars

(* No two services share a name or an id: what callers of the table use it *)
(* for (the duplicate check of service_register, src/src/service.c:24-29). *)
Distinct ==
  \A d, e \in entries : d.id = e.id \/ d.name = e.name => d = e

(* An id that was handed out once never comes back for another service.    *)
NeverReissued ==
  [][\A e \in entries' : e.id \in used => \E d \in entries : d.id = e.id /\ d.name = e.name]_vars
==============================================================================
