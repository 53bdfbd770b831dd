------------------------ MODULE RegistryThreadsProofs ------------------------
(***************************************************************************)
(* src/service.c, read by read and write by write, is correct for one      *)
(* thread: for every length of the array, every set of names and every     *)
(* number of calls it leaves the listener right, implements the Directory, *)
(* and does to each service what it was asked.                             *)
(*                                                                         *)
(* The inductive invariant says where in a call the thread is.  Between    *)
(* TakeId and the store of count one id is out that is in no row; in a     *)
(* removal the slot at the shift's index is left over, and the order of    *)
(* the ids, the uniqueness of the names and what the listener knows are    *)
(* about the other slots (Stay).                                           *)
(***************************************************************************)
EXTENDS RegistryThreads, TLAPS, FiniteSetTheorems

(* An id is given out, and its service not yet in the table. *)
Taken(t) == \/ pc[t] \in {"svc", "fill", "count"}
            \/ At(t, "store") /\ local[t].next = "announce"

Registering(t) == pc[t] \in {"scan", "slot", "next", "id"} \/ Taken(t)

Removing(t) == \/ pc[t] \in {"shift", "uncount"}
               \/ At(t, "store") /\ local[t].next = "idle"

(* The slots of services that stay, and of those the listener has heard of. *)
Stay(t) == IF Removing(t) THEN Live \ {local[t].i} ELSE Live
Told(t) == IF At(t, "announce") THEN Live \ {local[t].slot} ELSE Stay(t)

Sizes(t) ==
  /\ count \in 0 .. MaxServices
  /\ next_id <= MaxId
  /\ Registering(t) => count < MaxServices /\ local[t].name \in Names
  /\ pc[t] \in {"scan", "slot", "next", "id"} => next_id < MaxId

Places(t) ==
  LET l == local[t] IN
  /\ pc[t] \in {"scan", "find", "look"} => l.i <= count
  /\ pc[t] \in {"goodbye", "stamp"} \/ Removing(t) => l.i < count
  /\ pc[t] \in {"goodbye", "stamp"} => services[l.i].id = l.id
  /\ At(t, "uncount") => l.i = count - 1
  /\ pc[t] \in {"next", "id"} \/ Taken(t) => l.slot = count
  /\ At(t, "id") => l.tmp = next_id
  /\ pc[t] \in {"svc", "fill", "count"} => l.tmp = next_id - 1 /\ next_id > 0
  /\ Taken(t) /\ ~At(t, "svc") => services[count].id = next_id - 1
  /\ Taken(t) /\ pc[t] \notin {"svc", "fill"} => services[count].name = l.name
  /\ At(t, "announce") => /\ l.slot = count - 1 /\ count > 0
                          /\ services[l.slot].name = l.name
  /\ At(t, "store") => \/ l.next = "announce" /\ l.tmp = count + 1
                       \/ l.next = "idle" /\ l.tmp = count - 1 /\ l.i = count - 1

Rows(t) ==
  \A i \in Live : /\ services[i].name \in Names
                  /\ services[i].id < IF Taken(t) THEN next_id - 1 ELSE next_id

Order(t)  == \A i, j \in Stay(t) : i < j => services[i].id < services[j].id
Unique(t) == \A i, j \in Stay(t) : services[i].name = services[j].name => i = j

(* The name that is registered is free, as far as the thread has looked. *)
Fresh(t) ==
  Registering(t) =>
    \A i \in Live : ~At(t, "scan") \/ i < local[t].i => services[i].name # local[t].name

News(i)  == [id |-> services[i].id, name |-> services[i].name]
Heard(t) == view = {News(i) : i \in Told(t)}

Inv(t) == /\ TypeOK /\ Sizes(t) /\ Places(t) /\ Rows(t)
          /\ Order(t) /\ Unique(t) /\ Fresh(t) /\ Heard(t)

------------------------------------------------------------------------------
Row == [id : Ids, name : Names, last_heartbeat : Times]

(* What the types say when there is one thread. *)
LEMMA Typed ==
  ASSUME NEW t, Threads = {t}, TypeOK
  PROVE  /\ Slots = 0 .. MaxServices + 1
         /\ Ids = 0 .. MaxId + 1
         /\ MaxServices \in Nat \ {0} /\ MaxId \in Nat \ {0}
         /\ count \in -1 .. MaxServices /\ next_id \in 0 .. MaxId + 1
         /\ pc[t] \in Steps /\ local[t] \in Locals
         /\ local[t].i \in Slots /\ local[t].slot \in Slots /\ local[t].tmp \in Int
         /\ -1 .. MaxId + MaxServices + Cardinality(Threads) = -1 .. MaxId + MaxServices + 1
         /\ services \in [Slots -> Row]
         /\ \A i \in Slots : services[i].id \in Ids
<1>1. Cardinality(Threads) = 1
  BY FS_Singleton
<1>2. /\ Slots = 0 .. MaxServices + 1
      /\ Ids = 0 .. MaxId + 1
      /\ MaxServices \in Nat \ {0} /\ MaxId \in Nat \ {0}
      /\ count \in -1 .. MaxServices /\ next_id \in 0 .. MaxId + 1
  <2>1. /\ count \in -Cardinality(Threads) .. MaxServices + Cardinality(Threads) - 1
        /\ next_id \in Ids
    BY DEF TypeOK
  <2> QED
    BY <1>1, <2>1, ThreadsAssumption DEF Slots, Ids
<1>3. pc[t] \in Steps /\ local[t] \in Locals
  BY DEF TypeOK
<1>4. /\ local[t].i \in Slots /\ local[t].slot \in Slots
      /\ local[t].tmp \in -1 .. MaxId + MaxServices + Cardinality(Threads)
  BY <1>3 DEF Locals
<1>5. services \in [Slots -> Row] /\ \A i \in Slots : services[i].id \in Ids
  BY DEF TypeOK, Row
<1> QED
  BY <1>1, <1>2, <1>3, <1>4, <1>5

LEMMA Known ==
  ASSUME NEW t, Threads = {t}, Inv(t)
  PROVE  /\ TypeOK
         /\ Slots = 0 .. MaxServices + 1
         /\ Ids = 0 .. MaxId + 1
         /\ MaxServices \in Nat \ {0} /\ MaxId \in Nat \ {0}
         /\ count \in -1 .. MaxServices /\ next_id \in 0 .. MaxId + 1
         /\ pc[t] \in Steps /\ local[t] \in Locals
         /\ local[t].i \in Slots /\ local[t].slot \in Slots /\ local[t].tmp \in Int
         /\ services \in [Slots -> Row]
         /\ \A i \in Slots : services[i].id \in Ids
BY Typed DEF Inv

(* Moving on, with other local variables. *)
LEMMA Moves ==
  ASSUME NEW t, Threads = {t}, TypeOK,
         NEW step \in Steps, pc' = [pc EXCEPT ![t] = step] \/ (pc' = pc /\ step = pc[t]),
         NEW mine \in Locals, local' = [local EXCEPT ![t] = mine] \/ (local' = local /\ mine = local[t]),
         services' \in [Slots -> Row],
         count' \in -1 .. MaxServices, next_id' \in 0 .. MaxId + 1, now' = now,
         view' \subseteq [id : Ids, name : Names]
  PROVE  TypeOK' /\ pc'[t] = step /\ local'[t] = mine
<1>1. Cardinality(Threads) = 1
  BY FS_Singleton
<1>2. count' \in (-Cardinality(Threads) .. MaxServices + Cardinality(Threads) - 1)
  BY <1>1, Typed
<1>3. next_id' \in Ids
  BY <1>1, Typed
<1>4. pc' \in [Threads -> Steps] /\ pc'[t] = step
  BY DEF TypeOK
<1>5. local' \in [Threads -> Locals] /\ local'[t] = mine
  BY DEF TypeOK
<1> QED
  BY <1>2, <1>3, <1>4, <1>5 DEF TypeOK, Row

LEMMA InitInv ==
  ASSUME NEW t, Threads = {t}, Init
  PROVE  Inv(t)
<1>1. Cardinality(Threads) = 1
  BY FS_Singleton
<1>2. TypeOK
  BY <1>1, ThreadsAssumption DEF Init, TypeOK, Slots, Ids, Times, Steps, Locals
<1>3. pc[t] = "idle" /\ Live = {} /\ ~Removing(t) /\ ~Taken(t)
  BY DEF Init, Live, Removing, Taken, At
<1>4. Sizes(t) /\ Places(t)
  BY <1>3, ThreadsAssumption DEF Init, Sizes, Places, Registering, At
<1>5. Rows(t) /\ Order(t) /\ Unique(t) /\ Fresh(t) /\ Heard(t)
  BY <1>3 DEF Init, Rows, Order, Unique, Fresh, Heard, Stay, Told, At, Registering
<1> QED
  BY <1>2, <1>4, <1>5 DEF Inv

(* A step that leaves the table alone, and what is known of it. *)
LEMMA Quiet ==
  ASSUME NEW t, Inv(t), UNCHANGED <<globals, view>>,
         Taken(t)' <=> Taken(t), Stay(t)' = Stay(t), Told(t)' = Told(t)
  PROVE  Rows(t)' /\ Order(t)' /\ Unique(t)' /\ Heard(t)'
<1>1. Live' = Live /\ \A i : News(i)' = News(i)
  BY DEF globals, Live, News
<1>2. Rows(t)'
  BY <1>1 DEF Inv, Rows, globals
<1>3. Order(t)' /\ Unique(t)'
  BY DEF Inv, Order, Unique, globals
<1>4. Heard(t)'
  BY <1>1 DEF Inv, Heard
<1> QED
  BY <1>2, <1>3, <1>4

(* The steps of service_register up to its first write. *)
LEMMA RegisterInv ==
  ASSUME NEW t, Threads = {t}, Inv(t), NEW name \in Names, Register(t, name), now' = now
  PROVE  Inv(t)'
<1> DEFINE mine == [local[t] EXCEPT !.name = name, !.i = 0]
<1>1. /\ pc[t] = "idle" /\ UNCHANGED <<globals, view>>
      /\ pc' = [pc EXCEPT ![t] = "scan"] /\ local' = [local EXCEPT ![t] = mine]
  BY DEF Register, At, Goto
<1>2. mine \in Locals /\ mine.name = name /\ mine.i = 0
  <2>1. 0 \in Slots /\ local[t] \in Locals
    BY <1>1, Typed DEF Inv
  <2> QED
    BY <2>1 DEF Locals
<1>3. TypeOK' /\ pc'[t] = "scan" /\ local'[t] = mine
  <2> HIDE DEF mine
  <2> QED
    BY <1>1, <1>2, Moves, Typed DEF Inv, Steps, globals, TypeOK
<1>4. Sizes(t)' /\ Places(t)' /\ Fresh(t)'
  <2>1. count \in 0 .. MaxServices /\ count < MaxServices /\ next_id < MaxId
    BY Typed DEF Register, TooMany, Inv, Sizes
  <2>2. local'[t].name = name /\ local'[t].i = 0 /\ pc'[t] = "scan" /\ count' = count
    BY <1>1, <1>2, <1>3 DEF globals
  <2>3. Sizes(t)'
    BY <1>1, <2>1, <2>2 DEF Inv, Sizes, globals
  <2>4. Places(t)'
    BY <2>1, <2>2, ThreadsAssumption DEF Places, At, Taken, Removing
  <2>5. Fresh(t)'
    BY <2>1, <2>2, ThreadsAssumption DEF Fresh, At, Live
  <2> QED
    BY <2>3, <2>4, <2>5
<1>5. Rows(t)' /\ Order(t)' /\ Unique(t)' /\ Heard(t)'
  BY <1>1, <1>3, Quiet DEF Taken, Stay, Told, Removing, At, Live, globals
<1> QED
  BY <1>3, <1>4, <1>5 DEF Inv

LEMMA ScanInv ==
  ASSUME NEW t, Threads = {t}, Inv(t), Scan(t), now' = now
  PROVE  Inv(t)'
<1> DEFINE l == local[t]
           mine == [l EXCEPT !.i = l.i + 1]
<1>1. pc[t] = "scan" /\ UNCHANGED <<globals, view>>
  BY DEF Scan, At, Jump, Advance
<1>2. CASE /\ pc' = [pc EXCEPT ![t] = "idle"] /\ local' = local
  <2>1. TypeOK' /\ pc'[t] = "idle" /\ local'[t] = l
    BY <1>1, <1>2, Moves, Typed DEF Inv, Steps, globals, TypeOK
  <2>2. Sizes(t)' /\ Places(t)' /\ Fresh(t)'
    BY <1>1, <2>1 DEF Inv, Sizes, Places, Fresh, globals, At, Taken, Removing, Registering
  <2>3. Rows(t)' /\ Order(t)' /\ Unique(t)' /\ Heard(t)'
    BY <1>1, <2>1, Quiet DEF Taken, Stay, Told, Removing, At, Live, globals
  <2> QED
    BY <2>1, <2>2, <2>3 DEF Inv
<1>3. CASE /\ l.i < count /\ services[l.i].name # l.name
           /\ pc' = pc /\ local' = [local EXCEPT ![t] = mine]
  <2>1. l.i + 1 \in Slots /\ l.i + 1 <= count
    BY <1>3, Typed DEF Inv, Sizes
  <2>2. mine \in Locals /\ mine.i = l.i + 1 /\ mine.name = l.name
    BY <2>1, Typed DEF Inv, Locals
  <2>3. TypeOK' /\ pc'[t] = "scan" /\ local'[t] = mine
    <3> HIDE DEF mine
    <3> QED
      BY <1>1, <1>3, <2>2, Moves, Typed DEF Inv, Steps, globals, TypeOK
  <2>4. Sizes(t)' /\ Places(t)'
    BY <1>1, <2>1, <2>2, <2>3 DEF Inv, Sizes, Places, globals, At, Taken, Removing,
                                  Registering
  <2>5. Fresh(t)'
    <3>1. /\ count \in Int /\ l.i \in Int
          /\ \A i \in Live : i < l.i => services[i].name # l.name
      BY <1>1, Typed DEF Inv, Fresh, At, Registering
    <3>2. \A i \in Live : i < l.i + 1 => services[i].name # l.name
      BY <3>1, <1>3 DEF Live
    <3> HIDE DEF mine
    <3> QED
      BY <1>1, <2>2, <2>3, <3>2 DEF Fresh, Live, At, globals
  <2>6. Rows(t)' /\ Order(t)' /\ Unique(t)' /\ Heard(t)'
    BY <1>1, <2>3, Quiet DEF Taken, Stay, Told, Removing, At, Live, globals
  <2> QED
    BY <2>3, <2>4, <2>5, <2>6 DEF Inv
<1>4. CASE l.i >= count /\ pc' = [pc EXCEPT ![t] = "slot"] /\ local' = local
  <2>1. TypeOK' /\ pc'[t] = "slot" /\ local'[t] = l
    BY <1>1, <1>4, Moves, Typed DEF Inv, Steps, globals, TypeOK
  <2>2. Sizes(t)' /\ Places(t)'
    BY <1>1, <2>1 DEF Inv, Sizes, Places, globals, At, Taken, Removing, Registering
  <2>3. Fresh(t)'
    <3>1. /\ count \in Int /\ l.i \in Int /\ l.i >= count
          /\ \A i \in Live : i < l.i => services[i].name # l.name
      BY <1>1, <1>4, Typed DEF Inv, Fresh, At, Registering
    <3>2. \A i \in Live : services[i].name # l.name
      <4> HIDE DEF l
      <4> QED
        BY ONLY <3>1 DEF Live
    <3> QED
      BY <1>1, <2>1, <3>2 DEF Fresh, Live, globals
  <2>4. Rows(t)' /\ Order(t)' /\ Unique(t)' /\ Heard(t)'
    BY <1>1, <2>1, Quiet DEF Taken, Stay, Told, Removing, At, Live, globals
  <2> QED
    BY <2>1, <2>2, <2>3, <2>4 DEF Inv
<1> QED
  BY <1>2, <1>3, <1>4 DEF Scan, Jump, Advance, Goto

LEMMA TakeSlotInv ==
  ASSUME NEW t, Threads = {t}, Inv(t), TakeSlot(t), now' = now
  PROVE  Inv(t)'
<1> DEFINE mine == [local[t] EXCEPT !.slot = count]
<1>1. /\ pc[t] = "slot" /\ UNCHANGED <<globals, view>>
      /\ pc' = [pc EXCEPT ![t] = "next"] /\ local' = [local EXCEPT ![t] = mine]
  BY DEF TakeSlot, At, Goto
<1>2. /\ count \in 0 .. MaxServices /\ count < MaxServices /\ next_id \in Nat
      /\ next_id < MaxId /\ local[t].name \in Names
      /\ \A i \in Live : services[i].name # local[t].name
  BY <1>1, Typed DEF Inv, Sizes, Registering, Fresh, At
<1>3. mine \in Locals /\ mine.name = local[t].name /\ mine.slot = count
  <2>1. count \in Slots /\ local[t] \in Locals
    BY <1>2, Typed DEF Inv
  <2> QED
    BY <2>1 DEF Locals
<1> HIDE DEF mine
<1>4. TypeOK' /\ pc'[t] = "next" /\ local'[t] = mine
  BY <1>1, <1>3, Moves, Typed DEF Inv, Steps, globals, TypeOK
<1>5. Sizes(t)' /\ Places(t)' /\ Fresh(t)'
  <2>1. Sizes(t)'
    BY <1>1, <1>2, <1>3, <1>4, ThreadsAssumption DEF Sizes, globals
  <2>2. Places(t)'
    BY <1>1, <1>2, <1>3, <1>4 DEF Places, globals, At, Taken, Removing
  <2>3. Fresh(t)'
    BY <1>1, <1>2, <1>3, <1>4 DEF Fresh, globals, At, Live
  <2> QED
    BY <2>1, <2>2, <2>3
<1>6. Rows(t)' /\ Order(t)' /\ Unique(t)' /\ Heard(t)'
  BY <1>1, <1>4, Quiet DEF Taken, Stay, Told, Removing, At, Live, globals
<1> QED
  BY <1>4, <1>5, <1>6 DEF Inv

LEMMA LoadIdInv ==
  ASSUME NEW t, Threads = {t}, Inv(t), LoadId(t), now' = now
  PROVE  Inv(t)'
<1> DEFINE mine == [local[t] EXCEPT !.tmp = next_id]
<1>1. /\ pc[t] = "next" /\ UNCHANGED <<globals, view>>
      /\ pc' = [pc EXCEPT ![t] = "id"] /\ local' = [local EXCEPT ![t] = mine]
  BY DEF LoadId, At, Goto
<1>2. /\ count \in 0 .. MaxServices /\ count < MaxServices /\ next_id \in Nat
      /\ next_id < MaxId /\ local[t].name \in Names /\ local[t].slot = count
      /\ \A i \in Live : services[i].name # local[t].name
  BY <1>1, Typed DEF Inv, Sizes, Registering, Fresh, At, Places
<1>3. mine \in Locals /\ mine.name = local[t].name /\ mine.slot = count /\ mine.tmp = next_id
  <2>1. next_id \in -1 .. MaxId + MaxServices + 1
    BY <1>2, Typed DEF Inv
  <2>2. /\ local[t] \in Locals
        /\ -1 .. MaxId + MaxServices + Cardinality(Threads) = -1 .. MaxId + MaxServices + 1
    BY Typed DEF Inv
  <2> QED
    BY <1>2, <2>1, <2>2 DEF Locals
<1> HIDE DEF mine
<1>4. TypeOK' /\ pc'[t] = "id" /\ local'[t] = mine
  BY <1>1, <1>3, Moves, Typed DEF Inv, Steps, globals, TypeOK
<1>5. Sizes(t)' /\ Places(t)' /\ Fresh(t)'
  <2>1. Sizes(t)'
    BY <1>1, <1>2, <1>3, <1>4, ThreadsAssumption DEF Sizes, globals
  <2>2. Places(t)'
    BY <1>1, <1>2, <1>3, <1>4 DEF Places, globals, At, Taken, Removing
  <2>3. Fresh(t)'
    BY <1>1, <1>2, <1>3, <1>4 DEF Fresh, globals, At, Live
  <2> QED
    BY <2>1, <2>2, <2>3
<1>6. Rows(t)' /\ Order(t)' /\ Unique(t)' /\ Heard(t)'
  BY <1>1, <1>4, Quiet DEF Taken, Stay, Told, Removing, At, Live, globals
<1> QED
  BY <1>4, <1>5, <1>6 DEF Inv

LEMMA TakeIdInv ==
  ASSUME NEW t, Threads = {t}, Inv(t), TakeId(t), now' = now
  PROVE  Inv(t)'
<1> DEFINE l == local[t]
<1>1. /\ pc[t] = "id" /\ UNCHANGED <<services, count, view>>
      /\ pc' = [pc EXCEPT ![t] = "svc"] /\ local' = local
      /\ next_id' = l.tmp + 1
  BY DEF TakeId, At, Goto
<1>2. /\ count \in 0 .. MaxServices /\ count < MaxServices /\ l.name \in Names
      /\ next_id \in Nat /\ next_id < MaxId /\ l.tmp = next_id /\ l.slot = count
      /\ \A i \in Live : services[i].name # l.name
  BY <1>1, Typed DEF Inv, Sizes, Registering, Places, Fresh, At
<1>3. TypeOK' /\ pc'[t] = "svc" /\ local'[t] = l
  <2>1. next_id' \in 0 .. MaxId + 1 /\ "svc" \in Steps
    BY <1>1, <1>2, Typed DEF Inv, Steps
  <2>2. /\ TypeOK /\ l \in Locals /\ count' \in -1 .. MaxServices
        /\ services' \in [Slots -> Row] /\ view' \subseteq [id : Ids, name : Names]
    BY <1>1, Known DEF Inv, TypeOK
  <2> QED
    BY <1>1, <2>1, <2>2, Moves
<1>4. Sizes(t)'
  BY <1>1, <1>2, <1>3, ThreadsAssumption DEF Sizes
<1>5. Places(t)'
  BY <1>1, <1>2, <1>3 DEF Places, At, Taken, Removing
<1>6. Live' = Live /\ Stay(t) = Live /\ Stay(t)' = Live /\ Told(t) = Live /\ Told(t)' = Live
  BY <1>1, <1>3 DEF Live, Stay, Told, Removing, At
<1>7. Fresh(t)' /\ Rows(t)'
  <2>1. \A i \in Live : services[i].name \in Names /\ services[i].id < next_id
    BY <1>1 DEF Inv, Rows, Taken, At
  <2> QED
    BY <1>1, <1>2, <1>3, <1>6, <2>1 DEF Fresh, Rows, Taken, At
<1>8. Order(t)' /\ Unique(t)' /\ Heard(t)'
  BY <1>1, <1>6 DEF Inv, Order, Unique, Heard, News
<1> QED
  BY <1>3, <1>4, <1>5, <1>7, <1>8 DEF Inv

(* From here to the store of count the slot behind the table is written. *)
LEMMA Behind ==
  ASSUME NEW t, Threads = {t}, Inv(t), pc[t] \in {"svc", "fill"},
         \A i \in Live : services'[i] = services[i],
         UNCHANGED <<count, view>>, ~Removing(t)', ~At(t, "announce")'
  PROVE  /\ Order(t)' /\ Unique(t)' /\ Heard(t)'
<1>1. Live' = Live /\ Stay(t) = Live /\ Stay(t)' = Live /\ Told(t) = Live /\ Told(t)' = Live
  BY DEF Live, Stay, Told, Removing, At
<1>2. Order(t)' /\ Unique(t)'
  BY <1>1 DEF Inv, Order, Unique
<1>3. \A i \in Live : News(i)' = News(i)
  BY DEF News
<1>4. Heard(t)'
  BY <1>1, <1>3 DEF Inv, Heard
<1> QED
  BY <1>2, <1>4

LEMMA GiveIdInv ==
  ASSUME NEW t, Threads = {t}, Inv(t), GiveId(t), now' = now
  PROVE  Inv(t)'
<1> DEFINE l == local[t]
<1>1. /\ pc[t] = "svc" /\ UNCHANGED <<count, next_id, view>>
      /\ pc' = [pc EXCEPT ![t] = "fill"] /\ local' = local
      /\ services' = [services EXCEPT ![l.slot].id = l.tmp]
  BY DEF GiveId, At, Goto
<1>2. /\ count \in 0 .. MaxServices /\ count < MaxServices /\ l.name \in Names
      /\ next_id \in Nat /\ next_id > 0 /\ l.tmp = next_id - 1 /\ l.slot = count
      /\ \A i \in Live : services[i].name # l.name
  BY <1>1, Typed DEF Inv, Sizes, Registering, Places, Fresh, At, Taken
<1>3. /\ services' \in [Slots -> Row] /\ services'[count].id = next_id - 1
      /\ \A i \in Live : services'[i] = services[i]
  <2>1. count \in Slots /\ services \in [Slots -> Row] /\ services[count] \in Row
    BY <1>2, Typed DEF Inv
  <2>2. next_id - 1 \in Ids
    <3>1. local[t].tmp \in -1 .. MaxId + MaxServices + Cardinality(Threads) /\ next_id <= MaxId
      BY Known DEF Inv, Sizes, Locals
    <3>2. next_id # 0
      BY <1>1 DEF Inv, Places, At
    <3> QED
      BY <1>2, <3>1, <3>2, Known
  <2>3. services' = [services EXCEPT ![count] = [services[count] EXCEPT !.id = next_id - 1]]
    BY <1>1, <1>2
  <2>4. [services[count] EXCEPT !.id = next_id - 1] \in Row
    BY <2>1, <2>2 DEF Row
  <2>5. [services[count] EXCEPT !.id = next_id - 1].id = next_id - 1
    BY <2>1 DEF Row
  <2>6. \A i \in Live : i \in Slots /\ i # count
    BY <1>2, Typed DEF Inv, Live
  <2> QED
    BY <2>1, <2>3, <2>4, <2>5, <2>6
<1>4. TypeOK' /\ pc'[t] = "fill" /\ local'[t] = l
  <2>1. view' \subseteq [id : Ids, name : Names] /\ "fill" \in Steps
    BY <1>1 DEF Inv, TypeOK, Steps
  <2>2. TypeOK /\ l \in Locals /\ count' \in -1 .. MaxServices /\ next_id' \in 0 .. MaxId + 1
    BY <1>1, Known DEF Inv
  <2> QED
    BY <1>1, <1>3, <2>1, <2>2, Moves
<1>5. Sizes(t)'
  BY <1>1, <1>2, <1>4 DEF Inv, Sizes
<1>6. Places(t)'
  BY <1>1, <1>2, <1>3, <1>4 DEF Places, At, Taken, Removing
<1>7. Fresh(t)' /\ Rows(t)'
  <2>1. \A i \in Live : services[i].name \in Names /\ services[i].id < next_id - 1
    BY <1>1 DEF Inv, Rows, Taken, At
  <2> QED
    BY <1>1, <1>2, <1>3, <1>4, <2>1 DEF Fresh, Rows, Live, Taken, At
<1>8. Order(t)' /\ Unique(t)' /\ Heard(t)'
  BY <1>1, <1>3, <1>4, Behind DEF Removing, At
<1> QED
  BY <1>4, <1>5, <1>6, <1>7, <1>8 DEF Inv

LEMMA FillInv ==
  ASSUME NEW t, Threads = {t}, Inv(t), Fill(t), now' = now
  PROVE  Inv(t)'
<1> DEFINE l == local[t]
<1>1. /\ pc[t] = "fill" /\ UNCHANGED <<count, next_id, view>>
      /\ pc' = [pc EXCEPT ![t] = "count"] /\ local' = local
      /\ services' = [services EXCEPT ![l.slot].name = l.name, ![l.slot].last_heartbeat = now]
  BY DEF Fill, At, Goto
<1>2. /\ count \in 0 .. MaxServices /\ count < MaxServices /\ l.name \in Names
      /\ next_id \in Nat /\ next_id > 0 /\ l.tmp = next_id - 1 /\ l.slot = count
      /\ services[count].id = next_id - 1
      /\ \A i \in Live : services[i].name # l.name
  BY <1>1, Typed DEF Inv, Sizes, Registering, Places, Fresh, At, Taken
<1>3. /\ services' \in [Slots -> Row] /\ services'[count].id = next_id - 1
      /\ services'[count].name = l.name
      /\ \A i \in Live : services'[i] = services[i]
  <2> DEFINE new == [services[count] EXCEPT !.name = l.name, !.last_heartbeat = now]
  <2>1. count \in Slots /\ now \in Times /\ services \in [Slots -> Row]
    BY <1>2, Typed DEF Inv, TypeOK
  <2>2. services[count] \in Row
    BY <2>1
  <2>3. services' = [services EXCEPT ![count] = new]
    BY <1>1, <1>2, <2>1, <2>2 DEF Row
  <2>4. new \in Row /\ new.name = l.name /\ new.id = services[count].id
    BY <1>2, <2>1, <2>2 DEF Row
  <2>5. \A i \in Live : i \in Slots /\ i # count
    BY <1>2, Typed DEF Inv, Live
  <2> HIDE DEF new
  <2> QED
    BY <1>2, <2>1, <2>3, <2>4, <2>5
<1>4. TypeOK' /\ pc'[t] = "count" /\ local'[t] = l
  <2>1. view' \subseteq [id : Ids, name : Names] /\ "count" \in Steps
    BY <1>1 DEF Inv, TypeOK, Steps
  <2>2. TypeOK /\ l \in Locals /\ count' \in -1 .. MaxServices /\ next_id' \in 0 .. MaxId + 1
    BY <1>1, Known DEF Inv
  <2> QED
    BY <1>1, <1>3, <2>1, <2>2, Moves
<1>5. Sizes(t)'
  BY <1>1, <1>2, <1>4 DEF Inv, Sizes
<1>6. Places(t)'
  BY <1>1, <1>2, <1>3, <1>4 DEF Places, At, Taken, Removing
<1>7. Fresh(t)' /\ Rows(t)'
  <2>1. \A i \in Live : services[i].name \in Names /\ services[i].id < next_id - 1
    BY <1>1 DEF Inv, Rows, Taken, At
  <2> QED
    BY <1>1, <1>2, <1>3, <1>4, <2>1 DEF Fresh, Rows, Live, Taken, At
<1>8. Order(t)' /\ Unique(t)' /\ Heard(t)'
  BY <1>1, <1>3, <1>4, Behind DEF Removing, At
<1> QED
  BY <1>4, <1>5, <1>6, <1>7, <1>8 DEF Inv

(* The load of count++ or count--. *)
LEMMA LoadInv ==
  ASSUME NEW t, Threads = {t}, Inv(t), now' = now,
         \/ Load(t, "count", 1, "announce")
         \/ Load(t, "uncount", -1, "idle")
  PROVE  Inv(t)'
<1> DEFINE l == local[t]
<1> SUFFICES ASSUME NEW here, NEW delta, NEW after, Load(t, here, delta, after),
                    \/ here = "count" /\ delta = 1 /\ after = "announce"
                    \/ here = "uncount" /\ delta = -1 /\ after = "idle"
             PROVE  Inv(t)'
  OBVIOUS
<1> DEFINE mine == [l EXCEPT !.tmp = count + delta, !.next = after]
<1>1. /\ pc[t] = here /\ UNCHANGED <<globals, view>>
      /\ pc' = [pc EXCEPT ![t] = "store"] /\ local' = [local EXCEPT ![t] = mine]
  BY DEF Load, At, Goto
<1>2. /\ count \in 0 .. MaxServices /\ next_id \in Nat
      /\ here = "count" => count < MaxServices
  BY <1>1, Typed DEF Inv, Sizes, Registering, Taken
<1>3. /\ mine \in Locals /\ mine.name = l.name /\ mine.slot = l.slot /\ mine.i = l.i
      /\ mine.tmp = count + delta /\ mine.next = after
  <2>1. count + delta \in -1 .. MaxId + MaxServices + 1
    <3>1. delta \in {-1, 1}
      OBVIOUS
    <3>2. count \in Nat /\ count <= MaxServices
      BY <1>2, ThreadsAssumption
    <3> HIDE DEF mine, l
    <3> QED
      BY ONLY <3>1, <3>2, ThreadsAssumption
  <2>2. /\ l \in Locals
        /\ -1 .. MaxId + MaxServices + Cardinality(Threads) = -1 .. MaxId + MaxServices + 1
    BY Typed DEF Inv
  <2>3. after \in Steps
    BY DEF Steps
  <2> QED
    BY <2>1, <2>2, <2>3 DEF Locals
<1> HIDE DEF mine
<1>4. TypeOK' /\ pc'[t] = "store" /\ local'[t] = mine
  BY <1>1, <1>3, Moves, Typed DEF Inv, Steps, globals, TypeOK
<1>5. Sizes(t)'
  BY <1>1, <1>2, <1>3, <1>4 DEF Inv, Sizes, globals, Registering, Taken, At
<1>6. Places(t)'
  <2>1. CASE here = "count"
    BY <1>1, <1>2, <1>3, <1>4, <2>1 DEF Inv, Places, globals, At, Taken, Removing
  <2>2. CASE here = "uncount"
    BY <1>1, <1>2, <1>3, <1>4, <2>2 DEF Inv, Places, globals, At, Taken, Removing
  <2> QED
    BY <2>1, <2>2
<1>7. Fresh(t)'
  BY <1>1, <1>3, <1>4 DEF Inv, Fresh, globals, At, Registering, Taken, Live
<1>8. Rows(t)' /\ Order(t)' /\ Unique(t)' /\ Heard(t)'
  BY <1>1, <1>3, <1>4, Quiet DEF Taken, Stay, Told, Removing, At, Live, globals
<1> QED
  BY <1>4, <1>5, <1>6, <1>7, <1>8 DEF Inv

(* count++: the service is in the table. *)
LEMMA StoreNewInv ==
  ASSUME NEW t, Threads = {t}, Inv(t), Store(t), local[t].next = "announce", now' = now
  PROVE  Inv(t)'
<1> DEFINE l == local[t]
<1>1. /\ pc[t] = "store" /\ UNCHANGED <<services, next_id, view>>
      /\ pc' = [pc EXCEPT ![t] = "announce"] /\ local' = local /\ count' = l.tmp
  BY DEF Store, At, Goto
<1>2. /\ count \in 0 .. MaxServices /\ count < MaxServices /\ l.name \in Names
      /\ next_id \in Nat /\ l.tmp = count + 1 /\ l.slot = count
      /\ services[count].id = next_id - 1 /\ services[count].name = l.name
      /\ \A i \in Live : services[i].name # l.name
  BY <1>1, Typed DEF Inv, Sizes, Registering, Places, Fresh, At, Taken
<1>3. /\ \A i \in Live : services[i].name \in Names /\ services[i].id < next_id - 1
      /\ \A i \in Live : i \in Nat /\ i < count /\ services[i].id \in Int
      /\ Live' = Live \cup {count} /\ count \notin Live
  <2>1. \A i \in Live : services[i].name \in Names /\ services[i].id < next_id - 1
    BY <1>1 DEF Inv, Rows, Taken, At
  <2>2. \A i \in Live : i \in Nat /\ i < count /\ i \in Slots
    BY <1>2, Known DEF Live
  <2>3. \A i \in Slots : services[i].id \in Int
    BY Known
  <2>4. Live' = Live \cup {count} /\ count \notin Live
    BY <1>1, <1>2 DEF Live
  <2> QED
    BY <2>1, <2>2, <2>3, <2>4
<1>4. TypeOK' /\ pc'[t] = "announce" /\ local'[t] = l
  <2>1. count' \in -1 .. MaxServices
    BY <1>1, <1>2, Typed DEF Inv
  <2> QED
    BY <1>1, <2>1, Moves, Typed DEF Inv, Steps, TypeOK
<1>5. Sizes(t)' /\ Places(t)' /\ Fresh(t)'
  <2>1. Sizes(t)'
    BY <1>1, <1>2, <1>4, ThreadsAssumption DEF Inv, Sizes, Registering, Taken, At
  <2>2. Places(t)'
    BY <1>1, <1>2, <1>4 DEF Places, At, Taken, Removing
  <2>3. Fresh(t)'
    BY <1>4 DEF Fresh, At, Registering, Taken
  <2> QED
    BY <2>1, <2>2, <2>3
<1>6. Stay(t) = Live /\ Stay(t)' = Live \cup {count} /\ Told(t)' = Live /\ Told(t) = Live
  BY <1>1, <1>2, <1>3, <1>4 DEF Stay, Told, Removing, At
<1>7. Rows(t)'
  BY <1>1, <1>2, <1>3, <1>4 DEF Rows, Taken, At
<1>8. Order(t)'
  BY <1>1, <1>2, <1>3, <1>6 DEF Inv, Order
<1>9. Unique(t)'
  BY <1>1, <1>2, <1>6 DEF Inv, Unique
<1>10. Heard(t)'
  BY <1>1, <1>6 DEF Inv, Heard, News
<1> QED
  BY <1>4, <1>5, <1>7, <1>8, <1>9, <1>10 DEF Inv

(* count--: the slot left over is behind the table. *)
LEMMA StoreGoneInv ==
  ASSUME NEW t, Threads = {t}, Inv(t), Store(t), local[t].next = "idle", now' = now
  PROVE  Inv(t)'
<1> DEFINE l == local[t]
<1>1. /\ pc[t] = "store" /\ UNCHANGED <<services, next_id, view>>
      /\ pc' = [pc EXCEPT ![t] = "idle"] /\ local' = local /\ count' = l.tmp
  BY DEF Store, At, Goto
<1>2. /\ count \in 0 .. MaxServices /\ count > 0 /\ next_id \in Nat
      /\ l.tmp = count - 1 /\ l.i = count - 1
  BY <1>1, Typed DEF Inv, Sizes, Places, Removing, At
<1>3. Live' = Live \ {l.i}
  BY <1>1, <1>2 DEF Live
<1>4. TypeOK' /\ pc'[t] = "idle" /\ local'[t] = l
  <2>1. count' \in -1 .. MaxServices
    BY <1>1, <1>2, ThreadsAssumption
  <2> QED
    BY <1>1, <2>1, Moves, Typed DEF Inv, Steps, TypeOK
<1>5. Sizes(t)' /\ Places(t)' /\ Fresh(t)'
  <2>1. Sizes(t)'
    BY <1>1, <1>2, <1>4, ThreadsAssumption DEF Inv, Sizes, Registering, Taken, At
  <2>2. Places(t)'
    BY <1>4 DEF Places, At, Taken, Removing
  <2>3. Fresh(t)'
    BY <1>4 DEF Fresh, At, Registering, Taken
  <2> QED
    BY <2>1, <2>2, <2>3
<1>6. /\ Stay(t) = Live \ {l.i} /\ Stay(t)' = Stay(t)
      /\ Told(t) = Stay(t) /\ Told(t)' = Stay(t)
  BY <1>1, <1>3, <1>4 DEF Stay, Told, Removing, At
<1>7. Rows(t)'
  BY <1>1, <1>3, <1>4 DEF Inv, Rows, Taken, At
<1>8. Order(t)' /\ Unique(t)'
  BY <1>1, <1>6 DEF Inv, Order, Unique
<1>9. Heard(t)'
  BY <1>1, <1>6 DEF Inv, Heard, News
<1> QED
  BY <1>4, <1>5, <1>7, <1>8, <1>9 DEF Inv

LEMMA AnnounceNewInv ==
  ASSUME NEW t, Threads = {t}, Inv(t), AnnounceNew(t), now' = now
  PROVE  Inv(t)'
<1> DEFINE l == local[t]
<1>1. /\ pc[t] = "announce" /\ UNCHANGED globals
      /\ pc' = [pc EXCEPT ![t] = "idle"] /\ local' = local
      /\ view' = view \cup {[id |-> services[l.slot].id, name |-> l.name]}
  BY DEF AnnounceNew, Announced, At, Goto
<1>2. /\ count \in 0 .. MaxServices /\ l.slot = count - 1 /\ count > 0
      /\ services[l.slot].name = l.name /\ l.slot \in Live
  BY <1>1, Typed DEF Inv, Sizes, Places, At, Live
<1>3. [id |-> services[l.slot].id, name |-> l.name] \in [id : Ids, name : Names]
  <2>1. services[l.slot].id \in Ids
    BY Typed DEF Inv
  <2>2. l.name \in Names
    BY <1>2 DEF Inv, Rows
  <2> QED
    BY <2>1, <2>2
<1>4. TypeOK' /\ pc'[t] = "idle" /\ local'[t] = l
  <2>1. view' \subseteq [id : Ids, name : Names]
    BY <1>1, <1>3 DEF Inv, TypeOK
  <2> QED
    BY <1>1, <2>1, Moves, Typed DEF Inv, Steps, TypeOK, globals
<1>5. Sizes(t)' /\ Places(t)' /\ Fresh(t)'
  <2>1. Sizes(t)'
    BY <1>1, <1>4 DEF Inv, Sizes, Registering, Taken, At, globals
  <2>2. Places(t)'
    BY <1>4 DEF Places, At, Taken, Removing
  <2>3. Fresh(t)'
    BY <1>4 DEF Fresh, At, Registering, Taken
  <2> QED
    BY <2>1, <2>2, <2>3
<1>6. Live' = Live /\ Stay(t) = Live /\ Stay(t)' = Live /\ Told(t)' = Live
      /\ Told(t) = Live \ {l.slot}
  BY <1>1, <1>4 DEF Stay, Told, Removing, At, Live, globals
<1>7. Rows(t)'
  BY <1>1, <1>4, <1>6 DEF Inv, Rows, Taken, At, globals
<1>8. Order(t)' /\ Unique(t)'
  BY <1>1, <1>6 DEF Inv, Order, Unique, globals
<1>9. Heard(t)'
  <2>1. view' = {News(i) : i \in Live \ {l.slot}} \cup {News(l.slot)}
    BY <1>1, <1>2, <1>6 DEF Inv, Heard, News
  <2>2. \A i : News(i)' = News(i)
    BY <1>1 DEF News, globals
  <2> QED
    BY <1>2, <1>6, <2>1, <2>2 DEF Heard
<1> QED
  BY <1>4, <1>5, <1>7, <1>8, <1>9 DEF Inv

(* service_unregister and service_heartbeat begin to search. *)
LEMMA SearchInv ==
  ASSUME NEW t, Threads = {t}, Inv(t), now' = now,
         NEW id \in 0 .. MaxId - 1, NEW lbl \in {"find", "look"}, Search(t, id, lbl)
  PROVE  Inv(t)'
<1> DEFINE mine == [local[t] EXCEPT !.id = id, !.i = 0]
<1>1. /\ pc[t] = "idle" /\ UNCHANGED <<globals, view>>
      /\ pc' = [pc EXCEPT ![t] = lbl] /\ local' = [local EXCEPT ![t] = mine]
  BY DEF Search, At, Goto
<1>2. mine \in Locals /\ mine.i = 0
  <2>1. 0 \in Slots /\ id \in Ids /\ local[t] \in Locals
    BY <1>1, Typed DEF Inv
  <2> QED
    BY <2>1 DEF Locals
<1> HIDE DEF mine
<1>3. TypeOK' /\ pc'[t] = lbl /\ local'[t] = mine
  BY <1>1, <1>2, Moves, Typed DEF Inv, Steps, globals, TypeOK
<1>4. Sizes(t)' /\ Places(t)' /\ Fresh(t)'
  <2>1. Sizes(t)'
    BY <1>1, <1>3 DEF Inv, Sizes, Registering, Taken, At, globals
  <2>2. Places(t)'
    BY <1>1, <1>2, <1>3, ThreadsAssumption
       DEF Inv, Sizes, Places, At, Taken, Removing, globals
  <2>3. Fresh(t)'
    BY <1>3 DEF Fresh, At, Registering, Taken
  <2> QED
    BY <2>1, <2>2, <2>3
<1>5. Rows(t)' /\ Order(t)' /\ Unique(t)' /\ Heard(t)'
  BY <1>1, <1>3, Quiet DEF Taken, Stay, Told, Removing, At, Live, globals
<1> QED
  BY <1>3, <1>4, <1>5 DEF Inv

LEMMA FindInv ==
  ASSUME NEW t, Threads = {t}, Inv(t), now' = now,
         Find(t, "find", "goodbye") \/ Find(t, "look", "stamp")
  PROVE  Inv(t)'
<1> DEFINE l == local[t]
           mine == [l EXCEPT !.i = l.i + 1]
<1>1. pc[t] \in {"find", "look"} /\ UNCHANGED <<globals, view>>
  BY DEF Find, At, Jump, Advance
<1>2. CASE \E lbl \in {"idle", "goodbye", "stamp"} :
             /\ lbl # "idle" => l.i < count /\ services[l.i].id = l.id
             /\ pc' = [pc EXCEPT ![t] = lbl] /\ local' = local
  <2>1. PICK lbl \in {"idle", "goodbye", "stamp"} :
               /\ lbl # "idle" => l.i < count /\ services[l.i].id = l.id
               /\ pc' = [pc EXCEPT ![t] = lbl] /\ local' = local
    BY <1>2
  <2>2. TypeOK' /\ pc'[t] = lbl /\ local'[t] = l
    BY <1>1, <2>1, Moves, Typed DEF Inv, Steps, globals, TypeOK
  <2>3. Sizes(t)' /\ Fresh(t)'
    BY <1>1, <2>2 DEF Inv, Sizes, Fresh, globals, At, Taken, Registering
  <2>4. Places(t)'
    BY <1>1, <2>1, <2>2 DEF Inv, Places, globals, At, Taken, Removing
  <2>5. Rows(t)' /\ Order(t)' /\ Unique(t)' /\ Heard(t)'
    BY <1>1, <2>2, Quiet DEF Taken, Stay, Told, Removing, At, Live, globals
  <2> QED
    BY <2>2, <2>3, <2>4, <2>5 DEF Inv
<1>3. CASE l.i < count /\ pc' = pc /\ local' = [local EXCEPT ![t] = mine]
  <2>1. l.i + 1 \in Slots /\ l.i + 1 <= count
    BY <1>3, Typed DEF Inv, Sizes
  <2>2. mine \in Locals /\ mine.i = l.i + 1
    BY <2>1, Typed DEF Inv, Locals
  <2>3. TypeOK' /\ pc'[t] = pc[t] /\ local'[t] = mine
    <3> HIDE DEF mine
    <3> QED
      BY <1>1, <1>3, <2>2, Moves, Typed DEF Inv, globals, TypeOK
  <2>4. Sizes(t)' /\ Fresh(t)'
    BY <1>1, <2>3 DEF Inv, Sizes, Fresh, globals, At, Taken, Registering
  <2>5. Places(t)'
    BY <1>1, <2>1, <2>2, <2>3 DEF Places, globals, At, Taken, Removing
  <2>6. Rows(t)' /\ Order(t)' /\ Unique(t)' /\ Heard(t)'
    BY <1>1, <2>3, Quiet DEF Taken, Stay, Told, Removing, At, Live, globals
  <2> QED
    BY <2>3, <2>4, <2>5, <2>6 DEF Inv
<1> QED
  BY <1>2, <1>3 DEF Find, Matches, Jump, Advance, Goto

(* The listener forgets one service, the one with this id. *)
LEMMA AnnounceGoneInv ==
  ASSUME NEW t, Threads = {t}, Inv(t), AnnounceGone(t), now' = now
  PROVE  Inv(t)'
<1> DEFINE l == local[t]
<1>1. /\ pc[t] = "goodbye" /\ UNCHANGED globals
      /\ pc' = [pc EXCEPT ![t] = "shift"] /\ local' = local
      /\ view' = {v \in view : v.id # l.id}
  BY DEF AnnounceGone, At, Goto
<1>2. /\ l.i < count /\ services[l.i].id = l.id /\ l.i \in Live
      /\ \A i \in Live : services[i].id \in Int /\ i \in Int
  <2>1. l.i < count /\ services[l.i].id = l.id /\ count \in 0 .. MaxServices
    BY <1>1 DEF Inv, Sizes, Places, At
  <2>2. l.i \in Live
    BY <2>1, Known DEF Live
  <2>3. \A i \in Live : i \in Int /\ i \in Slots
    BY <2>1, Known DEF Live
  <2>4. \A i \in Slots : services[i].id \in Int
    BY Known
  <2> QED
    BY <2>1, <2>2, <2>3, <2>4
<1>3. TypeOK' /\ pc'[t] = "shift" /\ local'[t] = l
  <2>1. view' \subseteq [id : Ids, name : Names]
    BY <1>1 DEF Inv, TypeOK
  <2> QED
    BY <1>1, <2>1, Moves, Typed DEF Inv, Steps, TypeOK, globals
<1>4. Sizes(t)' /\ Places(t)' /\ Fresh(t)'
  <2>1. Sizes(t)'
    BY <1>1, <1>3 DEF Inv, Sizes, Registering, Taken, At, globals
  <2>2. Places(t)'
    BY <1>1, <1>2, <1>3 DEF Places, At, Taken, Removing, globals
  <2>3. Fresh(t)'
    BY <1>3 DEF Fresh, At, Registering, Taken
  <2> QED
    BY <2>1, <2>2, <2>3
<1>5. /\ Live' = Live /\ Stay(t) = Live /\ Stay(t)' = Live \ {l.i}
      /\ Told(t) = Live /\ Told(t)' = Live \ {l.i}
  BY <1>1, <1>3 DEF Stay, Told, Removing, At, Live, globals
<1>6. Rows(t)'
  BY <1>1, <1>3, <1>5 DEF Inv, Rows, Taken, At, globals
<1>7. Order(t)' /\ Unique(t)'
  BY <1>1, <1>5 DEF Inv, Order, Unique, globals
<1>8. Heard(t)'
  <2>1. \A i \in Live : services[i].id = l.id <=> i = l.i
    <3>1. \A i \in Live : i < l.i \/ i = l.i \/ l.i < i
      BY <1>2
    <3> QED
      BY <1>2, <1>5, <3>1 DEF Inv, Order
  <2>2. \A i : News(i)' = News(i) /\ News(i).id = services[i].id
    BY <1>1 DEF News, globals
  <2>3. view = {News(i) : i \in Live}
    BY <1>5 DEF Inv, Heard
  <2>4. view' = {News(i) : i \in Live \ {l.i}}
    BY <1>1, <2>1, <2>2, <2>3
  <2> QED
    BY <1>5, <2>2, <2>4 DEF Heard
<1> QED
  BY <1>3, <1>4, <1>6, <1>7, <1>8 DEF Inv

(* One slot is shifted: the slot that is left over moves up, and the others *)
(* hold what the others held before, in the same order.                     *)
LEMMA Shifted ==
  ASSUME NEW t, Threads = {t}, Inv(t), pc[t] = "shift",
         NEW j, j = local[t].i, j < count - 1,
         services' = [services EXCEPT ![j] = services[j + 1]],
         NEW k \in Live \ {j + 1}
  PROVE  LET from == IF k = j THEN j + 1 ELSE k
         IN  from \in Live \ {j} /\ services'[k] = services[from]
<1>1. j \in Slots /\ j \in Nat /\ j + 1 \in Live /\ Live \subseteq Slots
  <2>1. count \in 0 .. MaxServices
    BY DEF Inv, Sizes
  <2>2. j \in Nat /\ MaxServices \in Nat /\ Slots = 0 .. MaxServices + 1
    BY Known
  <2> QED
    BY <2>1, <2>2 DEF Live
<1>2. services \in [Slots -> Row]
  BY Known
<1>3. CASE k = j
  <2>1. services'[j] = services[j + 1] /\ j + 1 # j
    BY <1>1, <1>2
  <2> QED
    BY <1>1, <1>3, <2>1
<1>4. CASE k # j
  BY <1>1, <1>2, <1>4
<1> QED
  BY <1>3, <1>4

LEMMA ShiftInv ==
  ASSUME NEW t, Threads = {t}, Inv(t), Shift(t), now' = now
  PROVE  Inv(t)'
<1> DEFINE l == local[t]
           j == local[t].i
           mine == [l EXCEPT !.i = j + 1]
<1>1. pc[t] = "shift" /\ UNCHANGED <<count, next_id, view>>
  BY DEF Shift, At, Jump, globals
<1>2. CASE /\ j < count - 1 /\ pc' = pc
           /\ services' = [services EXCEPT ![j] = services[j + 1]]
           /\ local' = [local EXCEPT ![t] = mine]
  <2>1. /\ j \in Live /\ j + 1 \in Live /\ j + 1 \in Slots /\ j + 1 < count
        /\ Live \subseteq Slots /\ services \in [Slots -> Row]
        /\ \A i \in Live : i \in Int
    <3>1. count \in 0 .. MaxServices /\ j \in Nat
      BY Known DEF Inv, Sizes
    <3>2. Slots = 0 .. MaxServices + 1 /\ services \in [Slots -> Row] /\ MaxServices \in Nat
      BY Known
    <3> QED
      BY <1>2, <3>1, <3>2 DEF Live
  <2>2. services' \in [Slots -> Row]
    BY <1>2, <2>1
  <2>3. mine \in Locals /\ mine.i = j + 1
    BY <2>1, Typed DEF Inv, Locals
  <2>4. TypeOK' /\ pc'[t] = "shift" /\ local'[t] = mine
    <3> HIDE DEF mine
    <3> QED
      BY <1>1, <1>2, <2>2, <2>3, Moves, Typed DEF Inv, TypeOK
  <2>5. Sizes(t)' /\ Fresh(t)'
    BY <1>1, <2>4 DEF Inv, Sizes, Fresh, At, Taken, Registering
  <2>6. Places(t)'
    BY <1>1, <2>1, <2>3, <2>4 DEF Places, At, Taken, Removing
  <2> DEFINE from(k) == IF k = j THEN j + 1 ELSE k
  <2>7. /\ Live' = Live /\ Stay(t) = Live \ {j} /\ Stay(t)' = Live \ {j + 1}
        /\ Told(t) = Stay(t) /\ Told(t)' = Stay(t)'
    BY <1>1, <2>3, <2>4 DEF Stay, Told, Removing, At, Live
  <2>8. \A k \in Live \ {j + 1} : from(k) \in Live \ {j} /\ services'[k] = services[from(k)]
    BY <1>1, <1>2, Shifted
  <2>9. Rows(t)'
    <3>1. services'[j + 1] = services[j + 1]
      BY <1>2, <2>1
    <3>2. \A i \in Live : services[i].name \in Names /\ services[i].id < next_id
      BY <1>1 DEF Inv, Rows, Taken, At
    <3> QED
      BY <1>1, <2>1, <2>4, <2>7, <2>8, <3>1, <3>2 DEF Rows, Taken, At
  <2>10. Order(t)'
    BY <2>1, <2>7, <2>8 DEF Inv, Order
  <2>11. Unique(t)'
    BY <2>1, <2>7, <2>8 DEF Inv, Unique
  <2>12. Heard(t)'
    <3>1. \A k \in Live \ {j + 1} : News(k)' = News(from(k))
      BY <2>8 DEF News
    <3>2. \A m \in Live \ {j} : \E k \in Live \ {j + 1} : m = from(k)
      BY <2>1
    <3>3. view = {News(m) : m \in Live \ {j}}
      BY <2>7 DEF Inv, Heard
    <3> HIDE DEF from
    <3>4. {News(k)' : k \in Live \ {j + 1}} = {News(m) : m \in Live \ {j}}
      BY <2>8, <3>1, <3>2
    <3> QED
      BY <1>1, <2>7, <3>3, <3>4 DEF Heard
  <2> QED
    BY <2>4, <2>5, <2>6, <2>9, <2>10, <2>11, <2>12 DEF Inv
<1>3. CASE /\ j >= count - 1 /\ services' = services
           /\ pc' = [pc EXCEPT ![t] = "uncount"] /\ local' = local
  <2>1. TypeOK' /\ pc'[t] = "uncount" /\ local'[t] = l
    BY <1>1, <1>3, Moves, Typed DEF Inv, Steps, TypeOK
  <2>2. Sizes(t)' /\ Fresh(t)'
    BY <1>1, <2>1 DEF Inv, Sizes, Fresh, At, Taken, Registering
  <2>3. Places(t)'
    <3>1. j = count - 1 /\ j < count
      BY <1>1, <1>3, Typed DEF Inv, Sizes, Places, Removing
    <3> QED
      BY <1>1, <2>1, <3>1 DEF Places, At, Taken, Removing
  <2>4. Rows(t)' /\ Order(t)' /\ Unique(t)' /\ Heard(t)'
    BY <1>1, <1>3, <2>1, Quiet DEF Taken, Stay, Told, Removing, At, Live, globals
  <2> QED
    BY <2>1, <2>2, <2>3, <2>4 DEF Inv
<1> QED
  BY <1>2, <1>3 DEF Shift, ShiftEnd, Jump, Goto, globals

LEMMA Stamped ==
  ASSUME NEW t, Threads = {t}, Inv(t), Stamp(t)
  PROVE  LET i == local[t].i IN
         /\ i \in Live /\ now \in Times
         /\ services' = [services EXCEPT ![i] = [services[i] EXCEPT !.last_heartbeat = now]]
         /\ services' \in [Slots -> Row]
         /\ \A k \in Live : /\ services'[k].id = services[k].id
                            /\ services'[k].name = services[k].name
<1> DEFINE i == local[t].i
           new == [services[i] EXCEPT !.last_heartbeat = now]
<1>1. i \in Live /\ Live \subseteq Slots /\ services \in [Slots -> Row] /\ now \in Times
  <2>1. count \in 0 .. MaxServices /\ i \in Nat /\ i < count
    BY Typed DEF Inv, Sizes, Places, Stamp, At
  <2>2. Slots = 0 .. MaxServices + 1 /\ services \in [Slots -> Row] /\ MaxServices \in Nat
    BY Typed DEF Inv
  <2>3. now \in Times
    BY DEF Inv, TypeOK
  <2> QED
    BY <2>1, <2>2, <2>3 DEF Live
<1>2. services' = [services EXCEPT ![i] = new]
  BY DEF Stamp
<1>3. new \in Row /\ new.id = services[i].id /\ new.name = services[i].name
  BY <1>1 DEF Row
<1> HIDE DEF new
<1>4. services' \in [Slots -> Row] /\ services'[i] = new /\ \A k \in Live \ {i} : services'[k] = services[k]
  BY <1>1, <1>2, <1>3
<1>5. \A k \in Live : services'[k].id = services[k].id /\ services'[k].name = services[k].name
  BY <1>3, <1>4
<1> QED
  BY <1>1, <1>2, <1>4, <1>5 DEF new

LEMMA StampInv ==
  ASSUME NEW t, Threads = {t}, Inv(t), Stamp(t), now' = now
  PROVE  Inv(t)'
<1>1. /\ pc[t] = "stamp" /\ UNCHANGED <<count, next_id, view>>
      /\ pc' = [pc EXCEPT ![t] = "idle"] /\ local' = local
  BY DEF Stamp, At, Goto
<1>2. /\ services' \in [Slots -> Row]
      /\ \A k \in Live : /\ services'[k].id = services[k].id
                         /\ services'[k].name = services[k].name
  BY Stamped
<1>3. TypeOK' /\ pc'[t] = "idle" /\ local'[t] = local[t]
  BY <1>1, <1>2, Moves, Typed DEF Inv, Steps, TypeOK
<1>4. Sizes(t)' /\ Places(t)' /\ Fresh(t)'
  BY <1>1, <1>3 DEF Inv, Sizes, Places, Fresh, At, Taken, Registering, Removing
<1>5. Live' = Live /\ Stay(t) = Live /\ Stay(t)' = Live /\ Told(t) = Live /\ Told(t)' = Live
  BY <1>1, <1>3 DEF Stay, Told, Removing, At, Live
<1>6. Rows(t)'
  BY <1>1, <1>2, <1>3, <1>5 DEF Inv, Rows, Taken, At
<1>7. Order(t)' /\ Unique(t)'
  BY <1>2, <1>5 DEF Inv, Order, Unique
<1>8. Heard(t)'
  <2>1. \A k \in Live : News(k)' = News(k)
    BY <1>2 DEF News
  <2> QED
    BY <1>1, <1>5, <2>1 DEF Inv, Heard
<1> QED
  BY <1>3, <1>4, <1>6, <1>7, <1>8 DEF Inv

(* A step that changes neither the table nor the thread. *)
LEMMA IdleInv ==
  ASSUME NEW t, Inv(t), UNCHANGED <<globals, view, pc, local>>, now' \in Times
  PROVE  Inv(t)'
<1>1. TypeOK'
  BY DEF Inv, TypeOK, globals
<1>2. Sizes(t)' /\ Places(t)' /\ Fresh(t)'
  BY DEF Inv, Sizes, Places, Fresh, At, Taken, Registering, Removing, globals, Live
<1>3. Rows(t)' /\ Order(t)' /\ Unique(t)' /\ Heard(t)'
  BY Quiet DEF Taken, Stay, Told, Removing, At, Live, globals
<1> QED
  BY <1>1, <1>2, <1>3 DEF Inv

LEMMA NextInv ==
  ASSUME NEW t, Threads = {t}, Inv(t), [Next]_vars
  PROVE  Inv(t)'
<1>1. CASE Step(t) /\ UNCHANGED now
  <2>1. CASE \E name \in Names : Register(t, name)
    BY <1>1, <2>1, RegisterInv
  <2>2. CASE \E id \in 0 .. MaxId - 1 : Search(t, id, "find") \/ Search(t, id, "look")
    BY <1>1, <2>2, SearchInv
  <2>3. CASE Store(t)
    <3>1. local[t].next \in {"announce", "idle"}
      BY <2>3 DEF Inv, Places, Store
    <3> QED
      BY <1>1, <2>3, <3>1, StoreNewInv, StoreGoneInv
  <2> QED
    BY <1>1, <2>1, <2>2, <2>3, ScanInv, TakeSlotInv, LoadIdInv, TakeIdInv, GiveIdInv, FillInv, LoadInv,
       AnnounceNewInv, FindInv, AnnounceGoneInv, ShiftInv, StampInv DEF Step
<1>2. CASE Tick
  <2>1. now' \in Times
    BY <1>2, ThreadsAssumption DEF Tick, Inv, TypeOK, Times
  <2> QED
    BY <1>2, <2>1, IdleInv DEF Tick
<1>3. CASE UNCHANGED vars
  <2>1. now' \in Times
    BY <1>3 DEF vars, Inv, TypeOK
  <2> QED
    BY <1>3, <2>1, IdleInv DEF vars, globals
<1> QED
  BY <1>1, <1>2, <1>3 DEF Next

LEMMA Invariance ==
  ASSUME NEW t, Threads = {t}
  PROVE  Spec => []Inv(t)
<1>1. Init => Inv(t)
  BY InitInv
<1>2. Inv(t) /\ [Next]_vars => Inv(t)'
  BY NextInv
<1> QED
  BY <1>1, <1>2, PTL DEF Spec

(* The slot that is left over in a removal holds the service that leaves,   *)
(* until the next one is copied over it; then its id is gone.               *)
Leaver(t) ==
  Removing(t) =>
    /\ \A k \in Stay(t) : services[k].id # local[t].id
    /\ \/ services[local[t].i].id = local[t].id
       \/ \E k \in Stay(t) : services[k] = services[local[t].i]

LEMMA LeaverNext ==
  ASSUME NEW t, Threads = {t}, Inv(t), Inv(t)', Leaver(t), [Next]_vars
  PROVE  Leaver(t)'
<1> DEFINE l == local[t]
           j == local[t].i
<1>0. /\ pc \in [Threads -> Steps] /\ local \in [Threads -> Locals]
      /\ services \in [Slots -> Row] /\ count \in 0 .. MaxServices /\ j \in Nat
      /\ Slots = 0 .. MaxServices + 1 /\ MaxServices \in Nat
  <2>1. pc \in [Threads -> Steps] /\ local \in [Threads -> Locals]
    BY DEF Inv, TypeOK
  <2>2. /\ services \in [Slots -> Row] /\ j \in Slots
        /\ Slots = 0 .. MaxServices + 1 /\ MaxServices \in Nat
    BY Known
  <2>3. count \in 0 .. MaxServices
    BY DEF Inv, Sizes
  <2>4. j \in Nat
    BY <2>2
  <2> QED
    BY <2>1, <2>2, <2>3, <2>4
<1>1. CASE AnnounceGone(t)
  <2>1. /\ pc[t] = "goodbye" /\ pc'[t] = "shift" /\ local' = local /\ UNCHANGED globals
    BY <1>0, <1>1 DEF AnnounceGone, At, Goto
  <2>2. services[j].id = l.id /\ j \in Live /\ Stay(t) = Live
    BY <1>0, <2>1 DEF Inv, Places, Removing, Live, Stay, At
  <2>3. Stay(t)' = Live \ {j}
    BY <2>1 DEF Stay, Removing, Live, globals
  <2>4. \A k \in Live \ {j} : services[k].id # services[j].id
    <3> SUFFICES ASSUME NEW k \in Live \ {j} PROVE services[k].id # services[j].id
      OBVIOUS
    <3>1. k < j \/ j < k
      BY <1>0 DEF Live
    <3>2. services[k].id \in Int /\ services[j].id \in Int
      BY <1>0, <2>2, Known DEF Live
    <3> QED
      BY <2>2, <3>1, <3>2 DEF Inv, Order
  <2> QED
    BY <2>1, <2>2, <2>3, <2>4 DEF Leaver, globals
<1>2. CASE Shift(t) /\ j < count - 1
  <2>1. /\ pc[t] = "shift" /\ pc' = pc /\ UNCHANGED count
        /\ services' = [services EXCEPT ![j] = services[j + 1]]
        /\ local'[t].id = l.id /\ local'[t].i = j + 1
    BY <1>0, <1>2 DEF Shift, ShiftEnd, At, Locals
  <2>2. j \in Live /\ j + 1 \in Live /\ Live \subseteq Slots /\ j + 1 # j /\ Live' = Live
    BY <1>0, <1>2, <2>1 DEF Live
  <2>3. Stay(t) = Live \ {j} /\ Stay(t)' = Live \ {j + 1}
    BY <2>1, <2>2 DEF Stay, Removing
  <2>4. \A k \in Live \ {j} : services[k].id # l.id
    BY <2>1, <2>3 DEF Leaver, Removing
  <2> DEFINE from(k) == IF k = j THEN j + 1 ELSE k
  <2>5. \A k \in Live \ {j + 1} : \E m \in Live \ {j} : services'[k] = services[m]
    <3>1. \A k \in Live \ {j + 1} : from(k) \in Live \ {j} /\ services'[k] = services[from(k)]
      BY <1>2, <2>1, Shifted
    <3> HIDE DEF from
    <3> QED
      BY <3>1
  <2>6. services'[j + 1] = services'[j] /\ j \in Live \ {j + 1}
    BY <1>0, <2>1, <2>2
  <2> QED
    BY <2>1, <2>3, <2>4, <2>5, <2>6 DEF Leaver
<1>3. CASE \/ Shift(t) /\ ~(j < count - 1)
           \/ Load(t, "uncount", -1, "idle")
           \/ UNCHANGED <<globals, pc, local>>
  <2>1. /\ UNCHANGED globals /\ local'[t].i = j /\ local'[t].id = l.id
        /\ Removing(t)' <=> Removing(t)
    BY <1>0, <1>3 DEF Shift, ShiftEnd, Load, Jump, Goto, At, Removing, Locals, globals
  <2>2. Stay(t)' = Stay(t)
    BY <2>1 DEF Stay, Live, globals
  <2> QED
    BY <2>1, <2>2 DEF Leaver, globals
<1>4. CASE \/ \E name \in Names : Register(t, name)
           \/ \E id \in 0 .. MaxId - 1, lbl \in {"find", "look"} : Search(t, id, lbl)
           \/ Scan(t) \/ TakeSlot(t) \/ LoadId(t) \/ TakeId(t) \/ GiveId(t) \/ Fill(t)
           \/ Store(t) \/ AnnounceNew(t) \/ Stamp(t) \/ Load(t, "count", 1, "announce")
           \/ Find(t, "find", "goodbye") \/ Find(t, "look", "stamp")
  <2>1. CASE Load(t, "count", 1, "announce")
    <3>1. pc'[t] = "store" /\ local'[t].next = "announce"
      BY <1>0, <2>1 DEF Load, At, Goto, Locals
    <3> QED
      BY <3>1 DEF Leaver, Removing, At
  <2>2. CASE Store(t)
    <3>1. pc'[t] \in {"announce", "idle"}
      BY <1>0, <2>2 DEF Store, At, Goto, Inv, Places
    <3> QED
      BY <3>1 DEF Leaver, Removing, At
  <2>3. CASE ~Load(t, "count", 1, "announce") /\ ~Store(t)
    <3>1. pc'[t] \notin {"shift", "uncount", "store"}
      BY <1>0, <1>4, <2>3 DEF Register, Search, Scan, TakeSlot, LoadId, TakeId, GiveId, Fill,
         AnnounceNew, Stamp, Find, Jump, Advance, Goto, At
    <3> QED
      BY <3>1 DEF Leaver, Removing, At
  <2> QED
    BY <2>1, <2>2, <2>3
<1> QED
  BY <1>1, <1>2, <1>3, <1>4 DEF Next, Step, Tick, vars, globals

LEMMA LeaverInvariance ==
  ASSUME NEW t, Threads = {t}
  PROVE  Spec => []Leaver(t)
<1>1. Init => Leaver(t)
  BY DEF Init, Leaver, Removing, At
<1>2. Inv(t) /\ Inv(t)' /\ Leaver(t) /\ [Next]_vars => Leaver(t)'
  BY LeaverNext
<1> QED
  BY <1>1, <1>2, Invariance, PTL DEF Spec

(* With one thread the variables keep their types, and so no index leaves   *)
(* the memory around services[] (src/src/service.c:15-77).                  *)
THEOREM TypesHold == ASSUME NEW t, Threads = {t} PROVE Spec => []TypeOK
<1>1. Inv(t) => TypeOK
  BY DEF Inv
<1> QED
  BY <1>1, Invariance, PTL

(* With one thread a listener that has read all announcements knows the     *)
(* table whenever no call is under way (src/src/service.c:45, 56).          *)
THEOREM ListenerAlwaysAgrees == ASSUME NEW t, Threads = {t} PROVE Spec => []ListenerAgrees
<1>1. Inv(t) => ListenerAgrees
  <2> SUFFICES ASSUME Inv(t), AllIdle PROVE view = {News(i) : i \in Live}
    BY DEF ListenerAgrees, News
  <2>1. Told(t) = Live
    BY DEF AllIdle, Told, Stay, Removing, At
  <2> QED
    BY <2>1 DEF Inv, Heard
<1> QED
  BY <1>1, Invariance, PTL
------------------------------------------------------------------------------
(* The refinement. *)

(* What has been handed out: all ids below next_id, but for one that is     *)
(* taken and not in the table yet.                                          *)
Last(t) == IF Taken(t) THEN next_id - 2 ELSE next_id - 1

LEMMA UsedIds ==
  ASSUME NEW t, Threads = {t}
  PROVE  Inv(t) => (0 .. next_id - 1) \ Reserved = 0 .. Last(t)
<1> SUFFICES ASSUME Inv(t) PROVE (0 .. next_id - 1) \ Reserved = 0 .. Last(t)
  OBVIOUS
<1>1. next_id \in Nat
  <2>1. TypeOK
    BY DEF Inv
  <2>2. MaxId \in Nat /\ next_id \in 0 .. MaxId + 1
    BY <2>1, Typed
  <2> QED
    BY <2>2
<1>2. Reserved = IF Taken(t) THEN {next_id - 1} ELSE {}
  <2>1. CASE pc[t] \in {"svc", "fill", "count"}
    <3>1. Reserved = {local[t].tmp}
      BY <2>1 DEF Reserved, At
    <3> QED
      BY <2>1, <3>1 DEF Inv, Places, Taken
  <2>2. CASE At(t, "store") /\ local[t].next = "announce"
    <3>1. Reserved = {services[local[t].slot].id}
      BY <2>2 DEF Reserved, At
    <3> QED
      BY <2>2, <3>1 DEF Inv, Places, Taken, At
  <2>3. CASE ~Taken(t)
    BY <2>3 DEF Reserved, Taken, At
  <2> QED
    BY <2>1, <2>2, <2>3 DEF Taken
<1> QED
  BY <1>1, <1>2 DEF Last

LEMMA UsedIdsNext ==
  ASSUME NEW t, Threads = {t}
  PROVE  (Inv(t) => (0 .. next_id - 1) \ Reserved = 0 .. Last(t))'
<1>1. Inv(t) => (0 .. next_id - 1) \ Reserved = 0 .. Last(t)
  BY UsedIds
<1> QED
  BY <1>1, PTL

(* The steps of the directory, in terms of the table. *)
Services == {services[i] : i \in Live}

LEMMA SameServices ==
  ASSUME NEW t, Threads = {t}, Inv(t), Inv(t)',
         Services' = Services, Last(t)' = Last(t)
  PROVE  UNCHANGED Dir!vars
<1>1. ((0 .. next_id - 1) \ Reserved)' = (0 .. next_id - 1) \ Reserved
  BY UsedIds, UsedIdsNext
<1> QED
  BY <1>1 DEF Dir!vars, Services

LEMMA QuietRefines ==
  ASSUME NEW t, Threads = {t}, Inv(t), Inv(t)', UNCHANGED globals, Taken(t)' <=> Taken(t)
  PROVE  UNCHANGED Dir!vars
<1>1. Services' = Services /\ Last(t)' = Last(t)
  BY DEF globals, Services, Live, Last
<1> QED
  BY <1>1, SameServices

(* No two slots that stay hold the same service. *)
LEMMA StayDiffer ==
  ASSUME NEW t, Threads = {t}, Inv(t), NEW i \in Stay(t), NEW k \in Stay(t),
         services[i] = services[k]
  PROVE  i = k
<1>1. i \in Slots /\ k \in Slots /\ i \in Int /\ k \in Int
  <2>1. count \in 0 .. MaxServices /\ Slots = 0 .. MaxServices + 1 /\ MaxServices \in Nat
    BY Typed DEF Inv, Sizes
  <2> QED
    BY <2>1 DEF Stay, Live
<1>2. services[i].id \in Int
  BY <1>1, Known
<1>3. i < k \/ k < i \/ i = k
  BY <1>1
<1> QED
  BY <1>2, <1>3 DEF Inv, Order

(* What is in the other slots is what is left without the service that was  *)
(* asked for, or that service is gone already.                              *)
LEMMA LeaveRefines ==
  ASSUME NEW t, Threads = {t}, Inv(t), Inv(t)', Removing(t), Leaver(t), local[t].i \in Live,
         Services' = {services[k] : k \in Live \ {local[t].i}},
         Last(t)' = Last(t)
  PROVE  Dir!Unregister(local[t].id) \/ UNCHANGED Dir!vars
<1> DEFINE i == local[t].i
<1>1. CASE \E k \in Live \ {i} : services[k] = services[i]
  <2>1. Services' = Services
    BY <1>1 DEF Services
  <2> QED
    BY <2>1, SameServices
<1>2. CASE \A k \in Live \ {i} : services[k] # services[i]
  <2>1. /\ services[i].id = local[t].id
        /\ \A k \in Live \ {i} : services[k].id # local[t].id
    BY <1>2 DEF Leaver, Stay
  <2>2. /\ Services' = {e \in Services : e.id # local[t].id}
        /\ \E e \in Services : e.id = local[t].id
    BY <2>1 DEF Services
  <2>3. ((0 .. next_id - 1) \ Reserved)' = (0 .. next_id - 1) \ Reserved
    BY UsedIds, UsedIdsNext
  <2> QED
    BY <2>2, <2>3 DEF Dir!Unregister, Dir!Present, Services
<1> QED
  BY <1>1, <1>2

LEMMA ShiftRefines ==
  ASSUME NEW t, Threads = {t}, Inv(t), Inv(t)', Leaver(t), Shift(t)
  PROVE  Dir!Unregister(local[t].id) \/ UNCHANGED Dir!vars
<1> DEFINE j == local[t].i
<1>1. CASE /\ j < count - 1 /\ pc' = pc /\ UNCHANGED <<count, next_id>>
           /\ services' = [services EXCEPT ![j] = services[j + 1]]
  <2> DEFINE from(k) == IF k = j THEN j + 1 ELSE k
  <2>1. pc[t] = "shift"
    BY DEF Shift, At
  <2>2. \A k \in Live \ {j + 1} : from(k) \in Live \ {j} /\ services'[k] = services[from(k)]
    BY <1>1, <2>1, Shifted
  <2>3. /\ j \in Live /\ j + 1 \in Live /\ j + 1 # j /\ Live' = Live
        /\ services'[j + 1] = services[j + 1]
    <3>1. count \in 0 .. MaxServices /\ j \in Nat /\ MaxServices \in Nat
          /\ Slots = 0 .. MaxServices + 1 /\ services \in [Slots -> Row]
      BY Typed DEF Inv, Sizes
    <3> QED
      BY <1>1, <3>1 DEF Live
  <2>4. Services' = {services[m] : m \in Live \ {j}}
    <3>1. Services' = {services'[k] : k \in Live}
      BY <2>3 DEF Services
    <3>2. \A k \in Live : \E m \in Live \ {j} : services'[k] = services[m]
      BY <2>2, <2>3
    <3>3. \A m \in Live \ {j} : \E k \in Live : services'[k] = services[m]
      BY <2>2, <2>3
    <3> QED
      BY <3>1, <3>2, <3>3
  <2>5. Last(t)' = Last(t)
    BY <1>1, <2>1 DEF Last, Taken, At
  <2> QED
    BY <2>1, <2>3, <2>4, <2>5, LeaveRefines DEF Removing
<1>2. CASE pc' = [pc EXCEPT ![t] = "uncount"] /\ UNCHANGED globals
  <2>1. pc[t] = "shift" /\ pc'[t] = "uncount"
    BY <1>2 DEF Shift, At, Inv, TypeOK
  <2> QED
    BY <1>2, <2>1, QuietRefines DEF Taken, At
<1> QED
  BY <1>1, <1>2 DEF Shift, ShiftEnd, Jump, Goto, globals

LEMMA StoreGoneRefines ==
  ASSUME NEW t, Threads = {t}, Inv(t), Inv(t)', Leaver(t), Store(t), local[t].next = "idle"
  PROVE  /\ Dir!Unregister(local[t].id) \/ UNCHANGED Dir!vars
         /\ \A i \in Live' : services'[i].id # local[t].id
<1> DEFINE l == local[t]
<1>1. /\ pc[t] = "store" /\ pc'[t] = "idle" /\ UNCHANGED <<services, next_id>>
      /\ count' = l.tmp
  BY DEF Store, At, Goto, Inv, TypeOK
<1>2. l.tmp = count - 1 /\ l.i = count - 1 /\ count \in Nat /\ count > 0
  BY <1>1, Typed DEF Inv, Sizes, Places, Removing, At
<1>3. l.i \in Live /\ Live' = Live \ {l.i}
  BY <1>1, <1>2 DEF Live
<1>4. Services' = {services[k] : k \in Live \ {l.i}}
  BY <1>1, <1>3 DEF Services
<1>5. Last(t)' = Last(t)
  BY <1>1 DEF Last, Taken, At
<1>6. Removing(t)
  BY <1>1 DEF Removing, At
<1>7. \A i \in Live' : services'[i].id # l.id
  BY <1>1, <1>3, <1>6 DEF Leaver, Stay
<1> QED
  BY <1>3, <1>4, <1>5, <1>6, <1>7, LeaveRefines

(* The service whose slot was filled is in the table at once. *)
LEMMA StoreNewRefines ==
  ASSUME NEW t, Threads = {t}, Inv(t), Inv(t)', Store(t), local[t].next = "announce"
  PROVE  \E s \in Times : Dir!Register(services[local[t].slot].id, local[t].name, s)
<1> DEFINE l == local[t]
           new == services[count]
<1>1. /\ pc[t] = "store" /\ pc'[t] = "announce" /\ UNCHANGED <<services, next_id>>
      /\ count' = l.tmp
  BY DEF Store, At, Goto, Inv, TypeOK
<1>2. /\ count \in 0 .. MaxServices /\ count < MaxServices /\ l.name \in Names
      /\ l.tmp = count + 1 /\ l.slot = count
      /\ new.id = next_id - 1 /\ new.name = l.name
      /\ \A i \in Live : services[i].name # l.name
  BY <1>1, Typed DEF Inv, Sizes, Registering, Places, Fresh, At, Taken
<1>3. /\ new \in Row /\ next_id - 1 \in 0 .. MaxId - 1 /\ next_id \in Nat
  <2>1. count \in Slots /\ services \in [Slots -> Row]
    BY <1>2, Typed DEF Inv
  <2>2. new \in Row
    BY <2>1
  <2>3. new.id \in Ids
    BY <2>2 DEF Row
  <2>4. Ids = 0 .. MaxId + 1 /\ next_id <= MaxId /\ next_id \in 0 .. MaxId + 1 /\ MaxId \in Nat
    BY Typed DEF Inv, Sizes
  <2> QED
    BY <1>2, <2>2, <2>3, <2>4
<1>4. Live' = Live \cup {count}
  BY <1>1, <1>2 DEF Live
<1>5. Services' = Services \cup {new}
  <2> HIDE DEF new
  <2>1. services'[count] = new
    BY <1>1 DEF new
  <2>2. Services' = {services[k] : k \in Live \cup {count}}
    BY <1>1, <1>4 DEF Services
  <2> QED
    BY <1>1, <2>1, <2>2 DEF Services
<1>6. new = [id |-> next_id - 1, name |-> l.name, last_heartbeat |-> new.last_heartbeat]
      /\ new.last_heartbeat \in Times
  BY <1>2, <1>3 DEF Row
<1>7. /\ (0 .. next_id - 1) \ Reserved = 0 .. next_id - 2
      /\ ((0 .. next_id - 1) \ Reserved)' = 0 .. next_id - 1
  <2>1. Taken(t) /\ ~Taken(t)'
    BY <1>1 DEF Taken, At
  <2> QED
    BY <1>1, <2>1, UsedIds, UsedIdsNext DEF Last
<1>8. \A e \in Services : e.name # l.name
  BY <1>2 DEF Services
<1>9. next_id - 1 \notin 0 .. next_id - 2
      /\ 0 .. next_id - 1 = (0 .. next_id - 2) \cup {next_id - 1}
  BY <1>3, ThreadsAssumption
<1>10. services[l.slot].id = next_id - 1
  BY <1>2
<1>12. new.last_heartbeat \in Times
  BY <1>6
<1>13. \E s \in Times : s = new.last_heartbeat
  BY <1>12
<1>14. PICK s \in Times : s = new.last_heartbeat
  BY <1>13
<1>15. Dir!Register(services[l.slot].id, l.name, s)
  <2> HIDE DEF new, l
  <2> QED
    BY <1>5, <1>6, <1>7, <1>8, <1>9, <1>10, <1>14 DEF Dir!Register, Services
<1> QED
  BY <1>15

LEMMA TakeIdRefines ==
  ASSUME NEW t, Threads = {t}, Inv(t), Inv(t)', TakeId(t) \/ GiveId(t) \/ Fill(t)
  PROVE  UNCHANGED Dir!vars
<1>1. /\ count' = count /\ pc[t] \in {"id", "svc", "fill"} /\ local' = local
      /\ \A i \in Slots \ {count} : services'[i] = services[i]
  <2>1. local[t].slot = count /\ services \in [Slots -> Row]
    BY Typed DEF Inv, Places, TakeId, GiveId, Fill, At, Taken
  <2> QED
    BY <2>1 DEF TakeId, GiveId, Fill, At
<1>2. \A i \in Live : i \in Slots \ {count}
  <2>1. count \in 0 .. MaxServices /\ Slots = 0 .. MaxServices + 1 /\ MaxServices \in Nat
    BY Typed DEF Inv, Sizes
  <2> QED
    BY <2>1 DEF Live
<1>3. Services' = Services
  <2>1. Live' = Live
    BY <1>1 DEF Live
  <2>2. Services' = {services'[i] : i \in Live}
    BY <2>1 DEF Services
  <2> QED
    BY <1>1, <1>2, <2>2 DEF Services
<1>4. Last(t)' = Last(t)
  <2>1. CASE TakeId(t)
    <3>1. /\ pc[t] = "id" /\ pc'[t] = "svc" /\ next_id' = local[t].tmp + 1
          /\ local[t].tmp = next_id
      BY <2>1 DEF TakeId, At, Goto, Inv, TypeOK, Places
    <3>2. next_id \in Nat
      BY <3>1, Typed DEF Inv
    <3> QED
      BY <3>1, <3>2 DEF Last, Taken, At
  <2>2. CASE GiveId(t) \/ Fill(t)
    <3>1. /\ pc[t] \in {"svc", "fill"} /\ pc'[t] \in {"fill", "count"}
          /\ next_id' = next_id
      BY <2>2 DEF GiveId, Fill, At, Goto, Inv, TypeOK
    <3> QED
      BY <3>1 DEF Last, Taken, At
  <2> QED
    BY <2>1, <2>2
<1> QED
  BY <1>3, <1>4, SameServices

LEMMA StampRefines ==
  ASSUME NEW t, Threads = {t}, Inv(t), Inv(t)', Stamp(t)
  PROVE  Dir!Heartbeat(local[t].id, now) /\ now \in Times
<1> DEFINE i == local[t].i
           new == [services[i] EXCEPT !.last_heartbeat = now]
<1>1. /\ pc[t] = "stamp" /\ pc'[t] = "idle" /\ UNCHANGED <<count, next_id>>
      /\ i \in Live /\ now \in Times
      /\ services' = [services EXCEPT ![i] = new]
      /\ services[i].id = local[t].id
  BY Stamped DEF Stamp, At, Goto, Inv, TypeOK, Places
<1>2. Live' = Live /\ Live \subseteq Slots /\ services \in [Slots -> Row]
      /\ \A k \in Live : k \in Int
  <2>1. count \in 0 .. MaxServices /\ Slots = 0 .. MaxServices + 1 /\ MaxServices \in Nat
        /\ services \in [Slots -> Row]
    BY Typed DEF Inv, Sizes
  <2> QED
    BY <1>1, <2>1 DEF Live
<1> HIDE DEF new
<1>3. services'[i] = new /\ \A k \in Live \ {i} : services'[k] = services[k]
  BY <1>1, <1>2
<1>4. \A k \in Live \ {i} : services[k].id # services[i].id
  <2> SUFFICES ASSUME NEW k \in Live \ {i} PROVE services[k].id # services[i].id
    OBVIOUS
  <2>1. Stay(t) = Live
    BY <1>1 DEF Stay, Removing, At
  <2>2. (k < i \/ i < k) /\ services[k].id \in Int /\ services[i].id \in Int
    BY <1>1, <1>2, Known
  <2> QED
    BY <1>1, <2>1, <2>2 DEF Inv, Order
<1>5. \A k \in Live : services'[k] = Dir!Stamped(services[k], local[t].id, now)
  BY <1>1, <1>3, <1>4 DEF Dir!Stamped, new
<1>6. Services' = {Dir!Stamped(e, local[t].id, now) : e \in Services}
  <2>1. Services' = {services'[k] : k \in Live}
    BY <1>2 DEF Services
  <2> QED
    BY <1>5, <2>1 DEF Services
<1>7. ((0 .. next_id - 1) \ Reserved)' = (0 .. next_id - 1) \ Reserved
  <2>1. Last(t)' = Last(t)
    BY <1>1 DEF Last, Taken, At
  <2> QED
    BY <2>1, UsedIds, UsedIdsNext
<1>8. \E e \in Services : e.id = local[t].id
  BY <1>1 DEF Services
<1> QED
  BY <1>1, <1>6, <1>7, <1>8 DEF Dir!Heartbeat, Dir!Present, Services

(* The steps that change no service. *)
LEMMA OtherRefines ==
  ASSUME NEW t, Threads = {t}, Inv(t), Inv(t)',
         \/ \E name \in Names : Register(t, name)
         \/ \E id \in 0 .. MaxId - 1, lbl \in {"find", "look"} : Search(t, id, lbl)
         \/ Scan(t) \/ TakeSlot(t) \/ LoadId(t) \/ AnnounceNew(t) \/ AnnounceGone(t)
         \/ Load(t, "count", 1, "announce") \/ Load(t, "uncount", -1, "idle")
         \/ Find(t, "find", "goodbye") \/ Find(t, "look", "stamp")
  PROVE  UNCHANGED Dir!vars
<1>1. UNCHANGED globals
  BY DEF Register, Search, Scan, TakeSlot, LoadId, AnnounceNew, AnnounceGone, Load, Find, Jump,
         Advance
<1>2. Taken(t)' <=> Taken(t)
  <2>1. pc \in [Threads -> Steps] /\ local \in [Threads -> Locals]
    BY DEF Inv, TypeOK
  <2>2. CASE Load(t, "count", 1, "announce")
    <3>1. pc[t] = "count" /\ pc'[t] = "store" /\ local'[t].next = "announce"
      BY <2>1, <2>2 DEF Load, At, Goto, Locals
    <3> QED
      BY <3>1 DEF Taken, At
  <2>3. CASE Load(t, "uncount", -1, "idle")
    <3>1. pc[t] = "uncount" /\ pc'[t] = "store" /\ local'[t].next = "idle"
      BY <2>1, <2>3 DEF Load, At, Goto, Locals
    <3> QED
      BY <3>1 DEF Taken, At
  <2>4. CASE /\ ~Load(t, "count", 1, "announce")
             /\ ~Load(t, "uncount", -1, "idle")
    <3>1. /\ pc[t] \notin {"svc", "fill", "count", "store"}
          /\ pc'[t] \notin {"svc", "fill", "count", "store"}
      BY <2>1, <2>4 DEF Register, Search, Scan, TakeSlot, LoadId, AnnounceNew, AnnounceGone, Find,
                        Jump, Advance, Goto, At
    <3> QED
      BY <3>1 DEF Taken, At
  <2> QED
    BY <2>2, <2>3, <2>4
<1> QED
  BY <1>1, <1>2, QuietRefines

(* An id that is present is one the directory may hand out. *)
LEMMA PresentIds ==
  ASSUME NEW t, Threads = {t}, Inv(t), NEW id, Dir!Present(id)
  PROVE  id \in 0 .. MaxId - 1
<1>1. PICK i \in Live : services[i].id = id
  BY DEF Dir!Present
<1>2. /\ services[i].id \in 0 .. MaxId + 1 /\ next_id \in 0 .. MaxId + 1
      /\ next_id <= MaxId /\ MaxId \in Nat
  <2>1. i \in Slots
    <3>1. count \in 0 .. MaxServices /\ Slots = 0 .. MaxServices + 1 /\ MaxServices \in Nat
      BY Known DEF Inv, Sizes
    <3> QED
      BY <3>1 DEF Live
  <2> QED
    BY <2>1, Known DEF Inv, Sizes
<1>3. services[i].id < next_id
  BY <1>2 DEF Inv, Rows
<1> QED
  BY <1>1, <1>2, <1>3

(* What each step does to the directory. *)
LEMMA StepRefines ==
  ASSUME NEW t, Threads = {t}, Inv(t), Inv(t)', Leaver(t), [Next]_vars
  PROVE  \/ Dir!Unregister(local[t].id)
         \/ Dir!Heartbeat(local[t].id, now) /\ now \in Times
         \/ \E s \in Times : Dir!Register(services[local[t].slot].id, local[t].name, s)
              /\ Store(t) /\ local[t].next = "announce"
         \/ UNCHANGED Dir!vars
<1>1. CASE Step(t)
  <2>1. CASE Store(t)
    <3>1. local[t].next \in {"announce", "idle"}
      BY <2>1 DEF Inv, Places, Store
    <3> QED
      BY <2>1, <3>1, StoreNewRefines, StoreGoneRefines
  <2>2. CASE TakeId(t) \/ GiveId(t) \/ Fill(t)
    BY <2>2, TakeIdRefines
  <2>3. CASE Shift(t)
    BY <2>3, ShiftRefines
  <2>4. CASE Stamp(t)
    BY <2>4, StampRefines
  <2> QED
    BY <1>1, <2>1, <2>2, <2>3, <2>4, OtherRefines DEF Step
<1>2. CASE Tick \/ UNCHANGED vars
  <2>1. UNCHANGED globals /\ (Taken(t)' <=> Taken(t))
    BY <1>2 DEF Tick, vars, globals, Taken, At
  <2> QED
    BY <2>1, QuietRefines
<1> QED
  BY <1>1, <1>2 DEF Next

(* With one thread src/service.c implements the Directory also when every   *)
(* read and write of g_registry is a step: a slot that is half filled, and  *)
(* the array in the middle of a removal, are never a service too many, too  *)
(* few or twice (src/src/service.c:15-77).                                  *)
THEOREM Refinement == ASSUME NEW t, Threads = {t} PROVE Spec => ImplementsDirectory
<1>1. Init => Dir!Init
  <2> SUFFICES ASSUME Init PROVE Dir!Init
    OBVIOUS
  <2>1. Live = {} /\ 0 .. next_id - 1 = {}
    BY DEF Init, Live
  <2> QED
    BY <2>1 DEF Dir!Init
<1>2. Inv(t) /\ Inv(t)' /\ Leaver(t) /\ [Next]_vars => [Dir!Next]_(Dir!vars)
  <2> SUFFICES ASSUME Inv(t), Inv(t)', Leaver(t), [Next]_vars
               PROVE  Dir!Next \/ UNCHANGED Dir!vars
    OBVIOUS
  <2>1. CASE Dir!Unregister(local[t].id)
    <3>1. local[t].id \in 0 .. MaxId - 1
      BY <2>1, PresentIds DEF Dir!Unregister
    <3> QED
      BY <2>1, <3>1 DEF Dir!Next, Dir!Unregister
  <2>2. CASE Dir!Heartbeat(local[t].id, now) /\ now \in Times
    <3>1. local[t].id \in 0 .. MaxId - 1
      BY <2>2, PresentIds DEF Dir!Heartbeat
    <3> QED
      BY <2>2, <3>1 DEF Dir!Next, Dir!Heartbeat
  <2>3. CASE \E s \in Times : Dir!Register(services[local[t].slot].id, local[t].name, s)
               /\ Store(t) /\ local[t].next = "announce"
    <3> DEFINE l == local[t]
    <3>1. /\ At(t, "store") /\ Taken(t) /\ l.slot = count
          /\ services[count].id = next_id - 1 /\ l.name \in Names
          /\ count \in 0 .. MaxServices /\ next_id <= MaxId
      BY <2>3 DEF Inv, Places, Sizes, Store, Taken, At, Registering
    <3>2. services[count].id \in 0 .. MaxId + 1 /\ MaxId \in Nat /\ next_id \in 0 .. MaxId + 1
      BY <3>1, Known
    <3>3. services[l.slot].id \in 0 .. MaxId - 1
      BY <3>1, <3>2
    <3> QED
      BY <2>3, <3>1, <3>3 DEF Dir!Next
  <2> QED
    BY <2>1, <2>2, <2>3, StepRefines
<1> QED
  BY <1>1, <1>2, Invariance, LeaverInvariance, PTL DEF Spec, ImplementsDirectory, Dir!Spec

(* With one thread each call, cut into its reads and writes, changes in the *)
(* table the service it was asked about and no other: a removal takes out   *)
(* the id that was passed and has done so when count is stored, a heartbeat *)
(* stamps that id, and a registration enters the name that was passed       *)
(* (src/src/service.c:15-77).                                               *)
THEOREM AlwaysDoesAsAsked == ASSUME NEW t, Threads = {t} PROVE Spec => DoesAsAsked
<1>1. Inv(t) /\ Inv(t)' /\ Leaver(t) => AsAsked
  <2> SUFFICES ASSUME Inv(t), Inv(t)', Leaver(t) PROVE AsAsked
    OBVIOUS
  <2>1. /\ Stamp(t) => Dir!Heartbeat(local[t].id, now)
        /\ Shift(t) => Dir!Unregister(local[t].id) \/ UNCHANGED Dir!vars
        /\ Store(t) /\ local[t].next = "idle" =>
             /\ Dir!Unregister(local[t].id) \/ UNCHANGED Dir!vars
             /\ \A i \in Live' : services'[i].id # local[t].id
        /\ Store(t) /\ local[t].next = "announce" =>
             \E s \in Times : Dir!Register(services[local[t].slot].id, local[t].name, s)
    BY StampRefines, ShiftRefines, StoreGoneRefines, StoreNewRefines
  <2>2. \A u \in Threads : u = t
    OBVIOUS
  <2> QED
    BY <2>1, <2>2, Zenon DEF AsAsked
<1> QED
  BY <1>1, Invariance, LeaverInvariance, PTL DEF DoesAsAsked
==============================================================================
