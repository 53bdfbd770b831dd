------------------------ MODULE ServiceRegistryProofs ------------------------
(***************************************************************************)
(* The service table of src/service.c is correct for every length of the   *)
(* array, every set of names and every number of calls.  The inductive     *)
(* invariant is TypeOK with the order of the ids and the uniqueness of the *)
(* names: a removal keeps the last two only because the shift preserves    *)
(* the order of the slots, and an insertion because the new id is next_id. *)
(* A listener that has read every announcement knows the table, but for    *)
(* the services an announcement of which was lost.                         *)
(***************************************************************************)
EXTENDS ServiceRegistry, TLAPS, WellFoundedInduction

Inv == TypeOK /\ IdsAscend /\ NamesUnique

LEMMA InitInv == Init => Inv
  BY RegistryAssumption
     DEF Init, Inv, TypeOK, IdsAscend, NamesUnique, Live, Slots, Entry, Ids, Times,
         Good, News

(* An announcement of one of the two kinds, or its loss, keeps the types of *)
(* what is known elsewhere.                                                 *)
LEMMA AnnounceType ==
  ASSUME TypeOK,
         NEW kind, NEW id, NEW name,
         [kind |-> kind, id |-> id, name |-> name] \in News,
         Announce(kind, id, name)
  PROVE  /\ wire' \in Seq(News)
         /\ view' \subseteq [id : Ids, name : Good]
         /\ lost' \subseteq Ids
<1> DEFINE n == [kind |-> kind, id |-> id, name |-> name]
<1>1. id \in Ids
  BY DEF News
<1>2. CASE /\ wire' = Append(wire, n)
           /\ UNCHANGED <<view, lost>>
  <2> HIDE DEF n
  <2>1. n \in News
    BY DEF n
  <2> QED
    BY <1>2, <2>1 DEF TypeOK
<1>3. CASE /\ lost' = lost \cup {id}
           /\ UNCHANGED <<wire, view>>
  BY <1>1, <1>3 DEF TypeOK
<1> QED
  BY <1>2, <1>3 DEF Announce

(* service_register keeps the invariant. *)
LEMMA RegisterInv ==
  ASSUME Inv, NEW name \in Names, service_register(name)
  PROVE  Inv'
<1> USE RegistryAssumption
<1>1. CASE UNCHANGED vars
  BY <1>1 DEF Inv, TypeOK, IdsAscend, NamesUnique, Live, vars
<1>2. CASE /\ name \in Good
           /\ ~IsFull
           /\ ~IsRegistered(name)
           /\ next_id < MaxId
           /\ services' = [services EXCEPT ![count] =
                             [id |-> TakeId, name |-> name, last_heartbeat |-> now]]
           /\ next_id' = next_id + 1
           /\ count' = count + 1
           /\ Announce("register", TakeId, name)
           /\ UNCHANGED now
  <2>1. count \in Slots /\ count + 1 \in 0 .. MaxServices
    BY <1>2 DEF Inv, TypeOK, IsFull, Slots
  <2>2. next_id \in Ids /\ next_id + 1 \in 0 .. MaxId
    BY <1>2 DEF Inv, TypeOK, Ids
  <2>3. [id |-> next_id, name |-> name, last_heartbeat |-> now] \in Entry
    BY <1>2, <2>2 DEF Inv, TypeOK, Entry
  <2>4. [kind |-> "register", id |-> TakeId, name |-> name] \in News
    BY <1>2, <2>2 DEF News, TakeId
  <2>5. TypeOK'
    <3>1. services' \in [Slots -> Entry]
      BY <1>2, <2>1, <2>3 DEF Inv, TypeOK, TakeId
    <3>2. /\ wire' \in Seq(News)
          /\ view' \subseteq [id : Ids, name : Good]
          /\ lost' \subseteq Ids
      BY <1>2, <2>4, AnnounceType DEF Inv
    <3> QED
      BY <1>2, <2>1, <2>2, <3>1, <3>2 DEF Inv, TypeOK
  <2>6. \A i \in Live : i \in Slots /\ i # count /\ services'[i] = services[i]
    BY <1>2, <2>1 DEF Inv, TypeOK, Live, Slots
  <2>7. /\ services'[count].id = next_id
        /\ services'[count].name = name
    BY <1>2, <2>1 DEF Inv, TypeOK, TakeId
  <2>8. Live' = Live \cup {count}
    BY <1>2 DEF Inv, TypeOK, Live
  <2>9. IdsAscend'
    <3>1. \A i \in Live' : services'[i].id < next_id'
      BY <1>2, <2>2, <2>6, <2>7, <2>8 DEF Inv, TypeOK, IdsAscend, Entry, Ids
    <3>2. ASSUME NEW i \in Live', NEW j \in Live', i < j
          PROVE  services'[i].id < services'[j].id
      <4>1. i \in Live
        BY <2>8, <3>2 DEF Live, Inv, TypeOK
      <4>2. CASE j = count
        BY <2>6, <2>7, <4>1, <4>2 DEF Inv, IdsAscend
      <4>3. CASE j \in Live
        BY <2>6, <3>2, <4>1, <4>3 DEF Inv, IdsAscend
      <4> QED
        BY <2>8, <4>2, <4>3
    <3> QED
      BY <3>1, <3>2 DEF IdsAscend
  <2>10. NamesUnique'
    <3>1. \A i \in Live : services[i].name # name
      BY <1>2 DEF IsRegistered
    <3> QED
      BY <2>6, <2>7, <2>8, <3>1 DEF Inv, NamesUnique
  <2> QED
    BY <2>5, <2>9, <2>10 DEF Inv
<1> QED
  BY <1>1, <1>2 DEF service_register, Refuse

(* After ShiftDown(i), slot j holds what slot j or slot j + 1 held before,  *)
(* and never what slot i held.                                              *)
Source(i, j) == IF i <= j THEN j + 1 ELSE j

LEMMA ShiftDownSource ==
  ASSUME TypeOK, NEW i \in Live
  PROVE  /\ ShiftDown(i) \in [Slots -> Entry]
         /\ \A j \in 0 .. count - 2 :
              /\ Source(i, j) \in Live \ {i}
              /\ ShiftDown(i)[j] = services[Source(i, j)]
         /\ \A j, k \in 0 .. count - 2 : j < k => Source(i, j) < Source(i, k)
         /\ \A m \in Live \ {i} : \E j \in 0 .. count - 2 : m = Source(i, j)
<1> USE RegistryAssumption
<1>1. count \in Nat /\ count <= MaxServices /\ i \in 0 .. count - 1
  BY DEF TypeOK, Live
<1>2. ShiftDown(i) \in [Slots -> Entry]
  <2>1. ASSUME NEW j \in Slots, i <= j, j < count - 1
        PROVE  j + 1 \in Slots
    BY <1>1, <2>1 DEF Slots
  <2> QED
    BY <2>1 DEF ShiftDown, TypeOK
<1>3. ASSUME NEW j \in 0 .. count - 2
      PROVE  /\ Source(i, j) \in Live \ {i}
             /\ ShiftDown(i)[j] = services[Source(i, j)]
  <2>1. j \in Slots /\ j < count - 1
    BY <1>1 DEF Slots
  <2> QED
    BY <1>1, <2>1 DEF Source, ShiftDown, Live
<1>4. \A j, k \in 0 .. count - 2 : j < k => Source(i, j) < Source(i, k)
  BY <1>1 DEF Source
<1>5. ASSUME NEW m \in Live \ {i}
      PROVE  \E j \in 0 .. count - 2 : m = Source(i, j)
  <2>1. CASE m < i
    BY <1>1, <2>1 DEF Source, Live
  <2>2. CASE m > i
    <3>1. m - 1 \in 0 .. count - 2 /\ m = Source(i, m - 1)
      BY <1>1, <2>2 DEF Source, Live
    <3> QED
      BY <3>1
  <2> QED
    BY <1>1, <2>1, <2>2 DEF Live
<1> QED
  BY <1>2, <1>3, <1>4, <1>5

(* service_unregister keeps the invariant. *)
LEMMA UnregisterInv ==
  ASSUME Inv, NEW id \in Ids, service_unregister(id)
  PROVE  Inv'
<1> USE RegistryAssumption
<1>1. CASE UNCHANGED vars
  BY <1>1 DEF Inv, TypeOK, IdsAscend, NamesUnique, Live, vars
<1>2. ASSUME NEW i \in Live,
             IsFirst(i, id),
             Announce("unregister", Departing(i), NoName),
             services' = ShiftDown(i),
             count' = count - 1,
             UNCHANGED <<next_id, now>>
      PROVE  Inv'
  <2>1. count \in Nat /\ count' \in 0 .. MaxServices
    BY <1>2 DEF Inv, TypeOK, Live
  <2>2. TypeOK'
    <3>1. i \in Slots
      BY <2>1 DEF Inv, TypeOK, Live, Slots
    <3>2. [kind |-> "unregister", id |-> Departing(i), name |-> NoName] \in News
      BY <3>1 DEF Inv, TypeOK, Entry, News, Departing
    <3>3. /\ wire' \in Seq(News)
          /\ view' \subseteq [id : Ids, name : Good]
          /\ lost' \subseteq Ids
      BY <1>2, <3>2, AnnounceType DEF Inv
    <3>4. services' \in [Slots -> Entry]
      BY <1>2, ShiftDownSource DEF Inv
    <3> QED
      BY <1>2, <2>1, <3>3, <3>4 DEF Inv, TypeOK
  <2>3. Live' = 0 .. count - 2
    BY <1>2, <2>1 DEF Live
  <2>4. \A j \in Live' : /\ Source(i, j) \in Live
                         /\ services'[j] = services[Source(i, j)]
    BY <1>2, <2>3, ShiftDownSource DEF Inv
  <2>5. \A j, k \in Live' : j < k => Source(i, j) < Source(i, k)
    BY <2>3, ShiftDownSource DEF Inv
  <2>6. IdsAscend'
    BY <1>2, <2>4, <2>5 DEF Inv, IdsAscend
  <2>7. NamesUnique'
    <3>1. ASSUME NEW j \in Live', NEW k \in Live', j # k
          PROVE  Source(i, j) # Source(i, k)
      BY <1>2, <2>1, <2>3, <3>1 DEF Source, Live
    <3> QED
      BY <2>4, <3>1 DEF Inv, NamesUnique
  <2> QED
    BY <2>2, <2>6, <2>7 DEF Inv
<1> QED
  BY <1>1, <1>2 DEF service_unregister, Refuse

(* service_heartbeat keeps the invariant. *)
LEMMA HeartbeatInv ==
  ASSUME Inv, NEW id \in Ids, service_heartbeat(id)
  PROVE  Inv'
<1> USE RegistryAssumption
<1>1. CASE UNCHANGED vars
  BY <1>1 DEF Inv, TypeOK, IdsAscend, NamesUnique, Live, vars
<1>2. ASSUME NEW i \in Live,
             services' = [services EXCEPT ![i].last_heartbeat = now],
             UNCHANGED <<count, next_id, now, news>>
      PROVE  Inv'
  <2>1. Live \subseteq Slots /\ Live' = Live
    BY <1>2 DEF Inv, TypeOK, Live, Slots
  <2>2. services' \in [Slots -> Entry]
    BY <1>2, <2>1 DEF Inv, TypeOK, Entry
  <2>3. \A j \in Live : /\ services'[j].id = services[j].id
                        /\ services'[j].name = services[j].name
    BY <1>2, <2>1 DEF Inv, TypeOK, Entry
  <2> QED
    BY <1>2, <2>1, <2>2, <2>3 DEF Inv, TypeOK, IdsAscend, NamesUnique, news
<1> QED
  BY <1>1, <1>2 DEF service_heartbeat, Refuse

(* The clock and the listener keep the invariant. *)
LEMMA ElsewhereInv ==
  ASSUME Inv, Tick \/ Listen \/ UNCHANGED vars
  PROVE  Inv'
<1> USE RegistryAssumption
<1>1. CASE Tick
  BY <1>1 DEF Tick, Inv, TypeOK, IdsAscend, NamesUnique, Live, Times, table, news
<1>2. CASE Listen
  <2>1. Head(wire) \in News /\ Tail(wire) \in Seq(News)
    BY <1>2 DEF Listen, Inv, TypeOK
  <2>2. view' \subseteq [id : Ids, name : Good]
    BY <1>2, <2>1 DEF Listen, Apply, News, Inv, TypeOK
  <2> QED
    BY <1>2, <2>1, <2>2 DEF Listen, Inv, TypeOK, IdsAscend, NamesUnique, Live, table
<1>3. CASE UNCHANGED vars
  BY <1>3 DEF Inv, TypeOK, IdsAscend, NamesUnique, Live, vars
<1> QED
  BY <1>1, <1>2, <1>3

LEMMA NextInv == Inv /\ [Next]_vars => Inv'
  BY RegisterInv, UnregisterInv, HeartbeatInv, ElsewhereInv DEF Next

LEMMA Invariance == Spec => []Inv
  BY InitInv, NextInv, PTL DEF Spec

(* The array, its counters and the announcements always have their types;  *)
(* in particular no call reads or writes outside services[].               *)
THEOREM TypesHold == Spec => []TypeOK
<1>1. Inv => TypeOK
  BY DEF Inv
<1> QED
  BY <1>1, Invariance, PTL

(* Ids ascend along the table: through every shift a search by id finds    *)
(* at most one service, and an id is never given out again.                *)
THEOREM IdsAlwaysAscend == Spec => []IdsAscend
<1>1. Inv => IdsAscend
  BY DEF Inv
<1> QED
  BY <1>1, Invariance, PTL

(* No two services of the table carry the same name.                       *)
THEOREM NamesAlwaysUnique == Spec => []NamesUnique
<1>1. Inv => NamesUnique
  BY DEF Inv
<1> QED
  BY <1>1, Invariance, PTL
------------------------------------------------------------------------------
(* The listener.  Reading is a recursive function, so that it exists has to *)
(* be proved before anything it does; both by induction along the wire.     *)

(* Induction over the naturals, for the members of a set.                  *)
LEMMA Induction ==
  ASSUME NEW S, 0 \in S, \A n \in Nat : n \in S => n + 1 \in S
  PROVE  \A n \in Nat : n \in S
<1> DEFINE T == {n \in Nat : n \notin S}
<1> SUFFICES ASSUME T # {} PROVE FALSE
  OBVIOUS
<1>1. IsWellFoundedOn(OpToRel(<, Nat), Nat)
  BY NatLessThanWellFounded
<1>2. PICK m \in T : \A k \in T : ~(<<k, m>> \in OpToRel(<, Nat))
  BY <1>1, WFMin
<1>3. \A k \in T : ~(k < m)
  BY <1>2 DEF OpToRel
<1>4. m \in Nat /\ m \notin S
  OBVIOUS
<1>5. m # 0
  BY <1>4
<1>6. m - 1 \in S
  BY <1>3, <1>4, <1>5
<1>7. m - 1 \in Nat /\ (m - 1) + 1 = m
  BY <1>4, <1>5
<1> QED
  BY <1>4, <1>6, <1>7

LEMMA ReadingIs ==
  ASSUME NEW v, NEW w \in Seq(News)
  PROVE  /\ Reading(v, w)[0] = v
         /\ \A n \in 1 .. Len(w) : Reading(v, w)[n] = Apply(Reading(v, w)[n - 1], w[n])
<1> DEFINE Is(f, m) ==
      f = [n \in 0 .. m |-> IF n = 0 THEN v ELSE Apply(f[n - 1], w[n])]
           S == {m \in Nat : \E f : Is(f, m)}
<1>1. 0 \in S
  <2> DEFINE f == [n \in 0 .. 0 |-> v]
  <2>1. Is(f, 0)
    OBVIOUS
  <2> QED
    BY <2>1
<1>2. ASSUME NEW m \in Nat, m \in S PROVE m + 1 \in S
  <2>1. PICK f : Is(f, m)
    BY <1>2
  <2> DEFINE g == [n \in 0 .. m + 1 |-> IF n <= m THEN f[n] ELSE Apply(f[m], w[m + 1])]
  <2>2. \A n \in 0 .. m : g[n] = f[n] /\ (n > 0 => g[n - 1] = f[n - 1])
    OBVIOUS
  <2>3. ASSUME NEW n \in 0 .. m + 1
        PROVE  g[n] = IF n = 0 THEN v ELSE Apply(g[n - 1], w[n])
    <3>1. CASE n \in 0 .. m
      <4>1. f[n] = IF n = 0 THEN v ELSE Apply(f[n - 1], w[n])
        BY <2>1, <3>1
      <4> QED
        BY <2>2, <3>1, <4>1
    <3>2. CASE n = m + 1
      <4>1. g[n] = Apply(f[m], w[m + 1]) /\ g[n - 1] = f[m] /\ n # 0
        BY <3>2
      <4> QED
        BY <3>2, <4>1
    <3> QED
      BY <3>1, <3>2
  <2>4. Is(g, m + 1)
    <3>1. g = [n \in 0 .. m + 1 |-> g[n]]
      OBVIOUS
    <3> HIDE DEF g
    <3> QED
      BY <2>3, <3>1
  <2> HIDE DEF g, Is
  <2> QED
    BY <2>4
<1>3. Len(w) \in S
  <2> HIDE DEF S
  <2> QED
    BY <1>1, <1>2, Induction
<1>4. \E f : Is(f, Len(w))
  BY <1>3
<1>5. Is(Reading(v, w), Len(w))
  BY <1>4 DEF Reading
<1> HIDE DEF S
<1>6. ASSUME NEW n \in 0 .. Len(w)
      PROVE  Reading(v, w)[n] = IF n = 0 THEN v ELSE Apply(Reading(v, w)[n - 1], w[n])
  BY <1>5
<1> QED
  BY <1>6

(* One more announcement is read last ... *)
LEMMA ReadingAppended ==
  ASSUME NEW v, NEW w \in Seq(News), NEW n \in News
  PROVE  Reading(v, Append(w, n))[Len(w) + 1] = Apply(Reading(v, w)[Len(w)], n)
<1> DEFINE x == Append(w, n)
           S == {k \in Nat : k <= Len(w) => Reading(v, x)[k] = Reading(v, w)[k]}
<1>1. /\ x \in Seq(News) /\ Len(x) = Len(w) + 1 /\ Len(w) \in Nat
      /\ x[Len(w) + 1] = n /\ \A k \in 1 .. Len(w) : x[k] = w[k]
  OBVIOUS
<1> HIDE DEF x
<1>2. 0 \in S
  BY <1>1, ReadingIs
<1>3. ASSUME NEW k \in Nat, k \in S PROVE k + 1 \in S
  <2>1. SUFFICES ASSUME k + 1 <= Len(w)
                 PROVE  Reading(v, x)[k + 1] = Reading(v, w)[k + 1]
    OBVIOUS
  <2>2. k + 1 \in 1 .. Len(w) /\ k + 1 \in 1 .. Len(x) /\ (k + 1) - 1 = k
    BY <1>1, <2>1
  <2>3. Reading(v, x)[k] = Reading(v, w)[k] /\ x[k + 1] = w[k + 1]
    BY <1>1, <1>3, <2>1, <2>2
  <2>4. /\ Reading(v, x)[k + 1] = Apply(Reading(v, x)[k], x[k + 1])
        /\ Reading(v, w)[k + 1] = Apply(Reading(v, w)[k], w[k + 1])
    BY <1>1, <2>2, ReadingIs
  <2> QED
    BY <2>3, <2>4
<1>4. Len(w) \in S
  <2> HIDE DEF S
  <2> QED
    BY <1>1, <1>2, <1>3, Induction
<1>5. Reading(v, x)[Len(w) + 1] = Apply(Reading(v, x)[Len(w)], n)
  <2>1. Len(w) + 1 \in 1 .. Len(x) /\ (Len(w) + 1) - 1 = Len(w)
    BY <1>1
  <2> QED
    BY <1>1, <2>1, ReadingIs
<1> QED
  BY <1>1, <1>4, <1>5 DEF x

(* ... and the first one may be read now.                                  *)
LEMMA ReadingTail ==
  ASSUME NEW v, NEW w \in Seq(News), w # <<>>
  PROVE  Reading(Apply(v, Head(w)), Tail(w))[Len(w) - 1] = Reading(v, w)[Len(w)]
<1> DEFINE u == Apply(v, Head(w))
           x == Tail(w)
           S == {k \in Nat : k <= Len(x) => Reading(u, x)[k] = Reading(v, w)[k + 1]}
<1>1. /\ x \in Seq(News) /\ Len(w) \in Nat /\ Len(x) \in Nat /\ Len(w) = Len(x) + 1
      /\ \A k \in 1 .. Len(x) : x[k] = w[k + 1]
  OBVIOUS
<1>2. u = Reading(v, w)[1]
  <2>1. 1 \in 1 .. Len(w) /\ 1 - 1 = 0 /\ Head(w) = w[1]
    BY <1>1
  <2> QED
    BY <2>1, ReadingIs
<1> HIDE DEF x, u
<1>3. 0 \in S
  BY <1>1, <1>2, ReadingIs
<1>4. ASSUME NEW k \in Nat, k \in S PROVE k + 1 \in S
  <2>1. SUFFICES ASSUME k + 1 <= Len(x)
                 PROVE  Reading(u, x)[k + 1] = Reading(v, w)[(k + 1) + 1]
    OBVIOUS
  <2>2. k + 1 \in 1 .. Len(x) /\ (k + 1) + 1 \in 1 .. Len(w) /\ (k + 1) - 1 = k
        /\ ((k + 1) + 1) - 1 = k + 1
    BY <1>1, <2>1
  <2>3. Reading(u, x)[k] = Reading(v, w)[k + 1] /\ x[k + 1] = w[(k + 1) + 1]
    BY <1>1, <1>4, <2>1, <2>2
  <2>4. Reading(u, x)[k + 1] = Apply(Reading(u, x)[(k + 1) - 1], x[k + 1])
    BY <1>1, <2>2, ReadingIs
  <2>5. Reading(v, w)[(k + 1) + 1] = Apply(Reading(v, w)[((k + 1) + 1) - 1], w[(k + 1) + 1])
    BY <2>2, ReadingIs
  <2> QED
    BY <2>2, <2>3, <2>4, <2>5
<1>5. Len(x) \in S
  <2> HIDE DEF S
  <2> QED
    BY <1>1, <1>3, <1>4, Induction
<1> QED
  BY <1>1, <1>5 DEF x, u

(* An announcement is read, or its service is lost.                        *)
LEMMA AnnounceHeard ==
  ASSUME Inv, NEW kind, NEW id, NEW name,
         [kind |-> kind, id |-> id, name |-> name] \in News,
         Announce(kind, id, name)
  PROVE  \/ /\ Believed' = Apply(Believed, [kind |-> kind, id |-> id, name |-> name])
            /\ lost' = lost
         \/ Believed' = Believed /\ lost' = lost \cup {id}
<1> DEFINE n == [kind |-> kind, id |-> id, name |-> name]
<1>1. wire \in Seq(News)
  BY DEF Inv, TypeOK
<1>2. CASE wire' = Append(wire, n) /\ UNCHANGED <<view, lost>>
  <2>1. Len(Append(wire, n)) = Len(wire) + 1
    BY <1>1
  <2> HIDE DEF n
  <2>2. Reading(view, Append(wire, n))[Len(wire) + 1] = Apply(Reading(view, wire)[Len(wire)], n)
    BY <1>1, ReadingAppended DEF n
  <2> QED
    BY <1>2, <2>1, <2>2 DEF Believed, n
<1>3. CASE lost' = lost \cup {id} /\ UNCHANGED <<wire, view>>
  BY <1>3 DEF Believed
<1> QED
  BY <1>2, <1>3 DEF Announce

LEMMA RegisterHeard ==
  ASSUME Inv, ListenerConverges, NEW name \in Names, service_register(name)
  PROVE  ListenerConverges'
<1> USE RegistryAssumption
<1>1. CASE UNCHANGED vars
  BY <1>1 DEF vars, ListenerConverges, Believed, Actual, Live
<1>2. CASE /\ name \in Good /\ ~IsFull /\ next_id < MaxId
           /\ services' = [services EXCEPT ![count] =
                 [id |-> next_id, name |-> name, last_heartbeat |-> now]]
           /\ count' = count + 1
           /\ Announce("register", next_id, name)
  <2> DEFINE k == [id |-> next_id, name |-> name]
  <2>1. count \in Nat /\ count < MaxServices /\ services \in [Slots -> Entry]
        /\ next_id \in Ids
    BY <1>2 DEF Inv, TypeOK, IsFull, Ids
  <2>2. Actual' = Actual \cup {k}
    <3>1. services'[count].id = next_id /\ services'[count].name = name
      BY <1>2, <2>1 DEF Slots
    <3>2. \A i \in Live : services'[i] = services[i]
      BY <1>2, <2>1 DEF Slots, Live
    <3>3. Live' = Live \cup {count}
      BY <1>2, <2>1 DEF Live
    <3> QED
      BY <3>1, <3>2, <3>3 DEF Actual
  <2>3. [kind |-> "register", id |-> next_id, name |-> name] \in News
    BY <1>2, <2>1 DEF News
  <2>4. \/ Believed' = Believed \cup {k} /\ lost' = lost
        \/ Believed' = Believed /\ lost' = lost \cup {next_id}
    BY <1>2, <2>3, AnnounceHeard DEF Apply
  <2>5. k.id = next_id
    OBVIOUS
  <2> HIDE DEF k
  <2> QED
    BY <2>2, <2>4, <2>5 DEF ListenerConverges
<1> QED
  BY <1>1, <1>2 DEF service_register, Refuse, TakeId

LEMMA UnregisterHeard ==
  ASSUME Inv, ListenerConverges, NEW id \in Ids, service_unregister(id)
  PROVE  ListenerConverges'
<1> USE RegistryAssumption
<1>1. CASE UNCHANGED vars
  BY <1>1 DEF vars, ListenerConverges, Believed, Actual, Live
<1>2. ASSUME NEW i \in Live, IsFirst(i, id), Announce("unregister", Departing(i), NoName),
             services' = ShiftDown(i), count' = count - 1
      PROVE  ListenerConverges'
  <2>1. Departing(i) = id
    BY <1>2 DEF Departing, IsFirst
  <2>2. Actual' = {k \in Actual : k.id # id}
    <3>0. Live' = 0 .. count - 2
      BY <1>2 DEF Live, Inv, TypeOK
    <3>1. \A j \in Live' : Source(i, j) \in Live \ {i} /\ services'[j] = services[Source(i, j)]
      BY <1>2, <3>0, ShiftDownSource DEF Inv
    <3>2. \A j \in Live \ {i} : \E m \in Live' : j = Source(i, m)
      BY <1>2, <3>0, ShiftDownSource DEF Inv
    <3>3. \A j \in Live : services[j].id = id <=> j = i
      <4>1. \A j \in Live : i < j \/ j < i \/ i = j
        BY DEF Live, Inv, TypeOK
      <4>2. \A j \in Live : services[j].id \in Int
        BY DEF Inv, TypeOK, Entry, Ids, Live, Slots
      <4> QED
        BY <1>2, <4>1, <4>2 DEF Inv, IdsAscend, IsFirst
    <3> QED
      BY <3>1, <3>2, <3>3 DEF Actual
  <2>3. [kind |-> "unregister", id |-> id, name |-> NoName] \in News
    BY DEF News
  <2>4. \/ Believed' = {k \in Believed : k.id # id} /\ lost' = lost
        \/ Believed' = Believed /\ lost' = lost \cup {id}
    BY <1>2, <2>1, <2>3, AnnounceHeard DEF Apply
  <2> QED
    BY <2>2, <2>4 DEF ListenerConverges
<1> QED
  BY <1>1, <1>2 DEF service_unregister, Refuse

LEMMA ElsewhereHeard ==
  ASSUME Inv, ListenerConverges,
         \/ \E id \in Ids : service_heartbeat(id)
         \/ Tick \/ Listen \/ UNCHANGED vars
  PROVE  ListenerConverges'
<1>1. Actual' = Actual
  <2>1. CASE UNCHANGED <<services, count>>
    BY <2>1 DEF Actual, Live
  <2>2. ASSUME NEW i \in Live, services' = [services EXCEPT ![i].last_heartbeat = now],
               count' = count
        PROVE  Actual' = Actual
    <3>1. \A j \in Live : /\ services'[j].id = services[j].id
                          /\ services'[j].name = services[j].name
      BY <2>2 DEF Inv, TypeOK, Entry, Live, Slots
    <3> QED
      BY <2>2, <3>1 DEF Actual, Live
  <2> QED
    BY <2>1, <2>2 DEF service_heartbeat, Refuse, Tick, Listen, vars, table
<1>2. Believed' = Believed /\ lost' = lost
  <2>1. CASE Listen
    <3>1. wire \in Seq(News) /\ wire # <<>>
      BY <2>1 DEF Listen, Inv, TypeOK
    <3>2. Len(Tail(wire)) = Len(wire) - 1
      BY <3>1
    <3> QED
      BY <2>1, <3>1, <3>2, ReadingTail DEF Listen, Believed
  <2>2. CASE UNCHANGED news
    BY <2>2 DEF news, Believed
  <2> QED
    BY <2>1, <2>2 DEF service_heartbeat, Refuse, Tick, vars, news
<1> QED
  BY <1>1, <1>2 DEF ListenerConverges

(* Whatever is registered, removed and lost on the way, a listener that     *)
(* reads all announcements knows the table, but for the services of which   *)
(* an announcement was lost (src/src/service.c:45, 56).                     *)
THEOREM ListenerAlwaysConverges == Spec => []ListenerConverges
<1>1. Init => ListenerConverges
  <2> SUFFICES ASSUME Init PROVE ListenerConverges
    OBVIOUS
  <2>1. Live = {} /\ Len(wire) = 0 /\ wire \in Seq(News)
    BY DEF Init, Live
  <2>2. Believed = view
    BY <2>1, ReadingIs DEF Believed
  <2> QED
    BY <2>1, <2>2 DEF Init, ListenerConverges, Actual
<1>2. Inv /\ ListenerConverges /\ [Next]_vars => ListenerConverges'
  BY RegisterHeard, UnregisterHeard, ElsewhereHeard DEF Next
<1> QED
  BY <1>1, <1>2, Invariance, PTL DEF Spec

------------------------------------------------------------------------------
(* The refinement.  A row of the table is determined by its slot, and the   *)
(* ids tell the slots apart.                                                *)

LEMMA RowsDiffer ==
  ASSUME Inv, NEW i \in Live, NEW j \in Live, Row(i).id = Row(j).id
  PROVE  i = j
<1>1. services[i].id = services[j].id
  BY DEF Row
<1>2. i < j \/ j < i \/ i = j
  BY DEF Live, Inv, TypeOK
<1>3. services[i].id \in Int /\ services[j].id \in Int
  BY RegistryAssumption DEF Inv, TypeOK, Live, Slots, Entry, Ids
<1> QED
  BY <1>1, <1>2, <1>3 DEF Inv, IdsAscend

(* Whatever leaves the slots in use alone stutters in the directory.        *)
LEMMA SameTable ==
  ASSUME UNCHANGED <<services, count, next_id>>
  PROVE  UNCHANGED Dir!vars
  BY DEF Dir!vars, Row, Live

LEMMA RegisterRefines ==
  ASSUME Inv, NEW name \in Names, service_register(name)
  PROVE  \/ name \in Good /\ next_id \in Ids /\ Dir!Register(next_id, name, now)
         \/ UNCHANGED vars
<1> USE RegistryAssumption
<1>1. CASE UNCHANGED vars
  BY <1>1
<1>2. CASE /\ name \in Good
           /\ ~IsFull
           /\ ~IsRegistered(name)
           /\ next_id < MaxId
           /\ services' = [services EXCEPT ![count] =
                             [id |-> TakeId, name |-> name, last_heartbeat |-> now]]
           /\ next_id' = next_id + 1
           /\ count' = count + 1
  <2>1. count \in Slots /\ Live' = Live \cup {count}
    BY <1>2 DEF Inv, TypeOK, IsFull, Slots, Live
  <2>2. next_id \in Ids /\ next_id \notin 0 .. next_id - 1
    BY <1>2 DEF Inv, TypeOK, Ids
  <2>3. (0 .. next_id - 1)' = (0 .. next_id - 1) \cup {next_id}
    BY <1>2, <2>2 DEF Ids
  <2>4. \A i \in Live : services'[i] = services[i]
    BY <1>2, <2>1 DEF Inv, TypeOK, Live, Slots
  <2>5. PICK k \in Slots : k = count
    BY <2>1
  <2> DEFINE new == [id |-> next_id, name |-> name, last_heartbeat |-> now]
  <2>6. {Row(i) : i \in Live}' = {Row(i) : i \in Live} \cup {new}
    <3>1. services'[k] = new
      BY <1>2, <2>5 DEF Inv, TypeOK, TakeId
    <3>2. Live' = Live \cup {k}
      BY <2>1, <2>5
    <3>3. \A i \in Live : Row(i)' = Row(i)
      BY <2>4 DEF Row
    <3>4. Row(k)' = new
      BY <3>1 DEF Row
    <3> QED
      BY <3>2, <3>3, <3>4
  <2>7. \A e \in {Row(i) : i \in Live} : e.name # name
    BY <1>2 DEF IsRegistered, Row
  <2>8. Dir!Register(next_id, name, now)
    BY <2>2, <2>3, <2>6, <2>7 DEF Dir!Register
  <2> QED
    BY <1>2, <2>2, <2>8
<1> QED
  BY <1>1, <1>2 DEF service_register, Refuse

LEMMA UnregisterRefines ==
  ASSUME Inv, NEW id \in Ids, service_unregister(id)
  PROVE  Dir!Unregister(id) \/ UNCHANGED vars
<1> USE RegistryAssumption
<1>1. CASE UNCHANGED vars
  BY <1>1
<1>2. ASSUME NEW i \in Live,
             IsFirst(i, id),
             services' = ShiftDown(i),
             count' = count - 1,
             UNCHANGED <<next_id, now>>
      PROVE  Dir!Unregister(id)
  <2> DEFINE rows == {Row(m) : m \in Live}
  <2>1. Live' = 0 .. count - 2
    BY <1>2 DEF Inv, TypeOK, Live
  <2>2. \A j \in Live' : /\ Source(i, j) \in Live \ {i}
                         /\ services'[j] = services[Source(i, j)]
    BY <1>2, <2>1, ShiftDownSource DEF Inv
  <2>3. \A j \in Live' : Row(j)' = Row(Source(i, j))
    BY <2>2 DEF Row
  <2>4. \A m \in Live \ {i} : \E j \in Live' : m = Source(i, j)
    BY <2>1, ShiftDownSource DEF Inv
  <2>5. rows' = {Row(m) : m \in Live \ {i}}
    BY <2>2, <2>3, <2>4
  <2>6. Row(i) \in rows /\ Row(i).id = id
    BY <1>2 DEF IsFirst, Row
  <2>7. {Row(m) : m \in Live \ {i}} = {e \in rows : e.id # id}
    BY <2>6, RowsDiffer
  <2>8. (0 .. next_id - 1)' = 0 .. next_id - 1
    BY <1>2
  <2> QED
    BY <2>5, <2>6, <2>7, <2>8 DEF Dir!Unregister, Dir!Present
<1> QED
  BY <1>1, <1>2 DEF service_unregister, Refuse

LEMMA HeartbeatRefines ==
  ASSUME Inv, NEW id \in Ids, service_heartbeat(id)
  PROVE  Dir!Heartbeat(id, now) \/ UNCHANGED vars
<1> USE RegistryAssumption
<1>1. CASE UNCHANGED vars
  BY <1>1
<1>2. ASSUME NEW i \in Live,
             IsFirst(i, id),
             services' = [services EXCEPT ![i].last_heartbeat = now],
             UNCHANGED <<count, next_id, now, news>>
      PROVE  Dir!Heartbeat(id, now)
  <2> DEFINE rows == {Row(m) : m \in Live}
  <2> DEFINE stamped == [Row(i) EXCEPT !.last_heartbeat = now]
  <2>1. Live \subseteq Slots /\ Live' = Live
    BY <1>2 DEF Inv, TypeOK, Live, Slots
  <2>2. \A m \in Live \ {i} : services'[m] = services[m]
    BY <1>2, <2>1 DEF Inv, TypeOK
  <2>3. \A m \in Live \ {i} : Row(m)' = Row(m)
    BY <2>2 DEF Row
  <2>4. services[i] \in Entry
    BY <2>1 DEF Inv, TypeOK
  <2>5. /\ services'[i].id = services[i].id
        /\ services'[i].name = services[i].name
        /\ services'[i].last_heartbeat = now
    BY <1>2, <2>1, <2>4 DEF Inv, TypeOK, Entry
  <2>6. Row(i)' = stamped
    BY <2>5 DEF Row
  <2>7. Row(i) \in rows /\ Row(i).id = id
    BY <1>2 DEF IsFirst, Row
  <2>8. \A m \in Live : Row(m)' = Dir!Stamped(Row(m), id, now)
    BY <2>3, <2>6, <2>7, RowsDiffer DEF Dir!Stamped
  <2>9. rows' = {Dir!Stamped(e, id, now) : e \in rows}
    BY <2>1, <2>8
  <2>10. (0 .. next_id - 1)' = 0 .. next_id - 1
    BY <1>2
  <2> QED
    BY <2>7, <2>9, <2>10 DEF Dir!Heartbeat, Dir!Present
<1> QED
  BY <1>1, <1>2 DEF service_heartbeat, Refuse

(* The code implements the Directory: every call, whatever slots it shifts, *)
(* adds one service with a fresh id and a free name, removes or stamps one, *)
(* or changes nothing (src/src/service.c).                                  *)
THEOREM Refinement == Spec => ImplementsDirectory
<1>1. Init => Dir!Init
  <2> SUFFICES ASSUME Init PROVE Dir!Init
    OBVIOUS
  <2>1. Live = {} /\ 0 .. next_id - 1 = {}
    BY DEF Init, Live
  <2> QED
    BY <2>1 DEF Dir!Init
<1>2. Inv /\ [Next]_vars => [Dir!Next]_(Dir!vars)
  <2> SUFFICES ASSUME Inv, [Next]_vars
               PROVE  Dir!Next \/ UNCHANGED Dir!vars
    OBVIOUS
  <2>1. CASE Tick
    BY <2>1, SameTable DEF Tick, table
  <2>2. CASE Listen
    BY <2>2, SameTable DEF Listen, table
  <2>3. CASE UNCHANGED vars
    BY <2>3, SameTable DEF vars
  <2>4. now \in Times
    BY DEF Inv, TypeOK
  <2>5. ASSUME NEW name \in Names, service_register(name)
        PROVE  Dir!Next \/ UNCHANGED Dir!vars
    BY <2>3, <2>4, <2>5, RegisterRefines DEF Dir!Next
  <2>6. ASSUME NEW id \in Ids, service_unregister(id)
        PROVE  Dir!Next \/ UNCHANGED Dir!vars
    BY <2>3, <2>6, UnregisterRefines DEF Dir!Next
  <2>7. ASSUME NEW id \in Ids, service_heartbeat(id)
        PROVE  Dir!Next \/ UNCHANGED Dir!vars
    BY <2>3, <2>4, <2>7, HeartbeatRefines DEF Dir!Next
  <2> QED
    BY <2>1, <2>2, <2>3, <2>5, <2>6, <2>7 DEF Next
<1> QED
  BY <1>1, <1>2, Invariance, PTL DEF Spec, ImplementsDirectory, Dir!Spec

(* The service that a call removes or stamps is the one whose id it was     *)
(* given, whatever calls shifted the table before; the one it adds has the  *)
(* name it was given, and the next id (src/src/service.c:15-77).            *)
THEOREM AlwaysDoesAsAsked == Spec => DoesAsAsked
<1> DEFINE AsAsked ==
      /\ \A name \in Names : service_register(name) => Dir!Register(next_id, name, now)
      /\ \A id \in Ids : service_unregister(id) => Dir!Unregister(id)
      /\ \A id \in Ids : service_heartbeat(id) => Dir!Heartbeat(id, now)
<1>1. Inv => [AsAsked]_vars
  BY RegisterRefines, UnregisterRefines, HeartbeatRefines
<1> QED
  BY <1>1, Invariance, PTL DEF DoesAsAsked

==============================================================================
