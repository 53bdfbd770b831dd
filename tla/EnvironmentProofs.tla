-------------------------- MODULE EnvironmentProofs --------------------------
(***************************************************************************)
(* Proofs about Environment, for any names, values and blocks.             *)
(***************************************************************************)
EXTENDS Environment, TLAPS

Inv == TypeOK /\ Terminated /\ NamesOnce /\ Owned

------------------------------------------------------------------------------
(* The slots in front of the first NULL of an array. *)
LEMMA FrontOf ==
  ASSUME NEW s \in Nat, NEW f, NEW n \in 0 .. s,
         \A i \in 0 .. n - 1 : f[i] # Null,
         n < s => f[n] = Null
  PROVE  {i \in 0 .. s - 1 : \A k \in 0 .. i : f[k] # Null} = 0 .. n - 1
  OBVIOUS

(* Every loop of env.c runs over the slots from 0 on and stops at a NULL    *)
(* inside the block.                                                        *)
LEMMA Counted ==
  ASSUME TypeOK, Terminated
  PROVE  /\ Count \in 0 .. size
         /\ Live = 0 .. Count - 1
         /\ array # Null => Count < size /\ environ[Count] = Null
<1>1. \E n \in 0 .. size : Live = 0 .. n - 1
  <2>1. CASE array = Null
    <3>1. size = 0  BY <2>1 DEF TypeOK
    <3>2. Live = 0 .. 0 - 1  BY <3>1 DEF Live, Slots
    <3> QED  BY <3>1, <3>2
  <2>2. CASE array # Null
    <3>1. PICK n \in Slots : environ[n] = Null /\ \A i \in 0 .. n - 1 : environ[i] # Null
      BY <2>2 DEF Terminated
    <3>2. size \in Nat /\ n \in 0 .. size  BY DEF TypeOK, Slots
    <3>3. Live = 0 .. n - 1  BY <3>1, <3>2, FrontOf DEF Live, Slots
    <3> QED  BY <3>2, <3>3
  <2> QED  BY <2>1, <2>2
<1>2. Count \in 0 .. size /\ Live = 0 .. Count - 1  BY <1>1 DEF Count
<1>3. ASSUME array # Null  PROVE Count < size /\ environ[Count] = Null
  <2>1. PICK n \in Slots : environ[n] = Null /\ \A i \in 0 .. n - 1 : environ[i] # Null
    BY <1>3 DEF Terminated
  <2>2. size \in Nat /\ n \in 0 .. size - 1  BY DEF TypeOK, Slots
  <2>3. Live = 0 .. n - 1  BY <2>1, <2>2, FrontOf DEF Live, Slots
  <2>4. n = Count  BY <1>2, <2>2, <2>3
  <2> QED  BY <2>1, <2>2, <2>4
<1> QED  BY <1>2, <1>3


(* What Counted says, as a state predicate: it holds of the next state too.*)
Scanned ==
  /\ Count \in 0 .. size
  /\ Live = 0 .. Count - 1
  /\ array # Null => Count < size /\ environ[Count] = Null
  /\ array = Null => Count = 0

LEMMA Scans == Inv => Scanned
  BY Counted DEF Inv, Scanned, TypeOK

LEMMA ScansNext == Inv' => Scanned'
  BY Scans, PTL

------------------------------------------------------------------------------
(* A call that leaves the array alone and may lose a block on the way.     *)
LEMMA LosesBlocks ==
  ASSUME Inv, Same, NEW m \in SUBSET (Blocks \ heap),
         heap' = heap \cup m, lost' = lost \cup m
  PROVE  Inv'
<1>1. Live' = Live /\ Held' = Held  BY DEF Same, Live, Slots, Held
<1>2. TypeOK' /\ Terminated' /\ NamesOnce'
  BY <1>1 DEF Inv, TypeOK, Terminated, NamesOnce, Same, Slots
<1>3. Owned'  BY <1>1 DEF Inv, Owned, Same
<1> QED  BY <1>2, <1>3 DEF Inv

LEMMA NoStringKeeps ==
  ASSUME Inv, NoString
  PROVE  Inv'
<1>1. PICK m \in Missed(heap) : Settle(m, {}, m)  BY DEF NoString
<1>2. m \in SUBSET (Blocks \ heap)  BY <1>1 DEF Missed
<1>3. heap' = heap \cup m /\ lost' = lost \cup m  BY <1>1 DEF Settle
<1> QED  BY <1>2, <1>3, LosesBlocks DEF NoString

LEMMA NoArrayKeeps ==
  ASSUME Inv, NoArray
  PROVE  Inv'
<1>1. PICK b \in Granted(heap) :
        \E k \in SUBSET Undo(b), m \in Missed(heap \cup {b}) : Settle({b} \cup m, Undo(b), k \cup m)
  BY DEF NoArray
<1>2. PICK k \in SUBSET Undo(b), m \in Missed(heap \cup {b}) : Settle({b} \cup m, Undo(b), k \cup m)
  BY <1>1
<1>3. b \in Blocks /\ b \notin heap  BY DEF Granted
<1>4. m \in SUBSET (Blocks \ heap) /\ b \notin m  BY <1>2 DEF Missed
<1>5. k \in SUBSET {b}  BY <1>2 DEF Undo
<1>6. heap' = heap \cup (k \cup m)  BY <1>2, <1>3, <1>4, <1>5 DEF Settle, Undo
<1>7. lost' = lost \cup (k \cup m)  BY <1>2 DEF Settle
<1>8. k \cup m \in SUBSET (Blocks \ heap)  BY <1>3, <1>4, <1>5
<1> QED  BY <1>6, <1>7, <1>8, LosesBlocks DEF NoArray

(* What the array says, without the order. *)
Pairs == {<<environ[i].name, environ[i].value>> : i \in Live}

(* The entries of slots in use are entries. *)
LEMMA LiveEntries ==
  ASSUME Inv
  PROVE  /\ Live \subseteq Slots
         /\ \A i \in Live : environ[i] \in Entry
  BY DEF Inv, TypeOK, Live, Slots

LEMMA ReplaceKeeps ==
  ASSUME Inv, NEW n \in Names, NEW v \in Values, Replace(n, v)
  PROVE  /\ Inv'
         /\ \E w : <<n, w>> \in Pairs
         /\ Pairs' = {q \in Pairs : q[1] # n} \cup {<<n, v>>}
<1>1. PICK i \in Live, b \in Granted(heap) :
        /\ IsLast(i, n, NoPart)
        /\ \E m \in SUBSET {environ[i].at} : Settle({b}, {environ[i].at}, m)
        /\ environ' = [environ EXCEPT ![i] = [name |-> n, value |-> v, at |-> b]]
  BY DEF Replace
<1>2. PICK m \in SUBSET {environ[i].at} : Settle({b}, {environ[i].at}, m)  BY <1>1
<1> DEFINE e == [name |-> n, value |-> v, at |-> b]
           old == environ[i].at
<1>3. b \in Blocks /\ b \notin heap /\ e \in Entry /\ e # Null
  BY EnvironmentAssumption DEF Granted, Entry
<1>4. Scanned /\ i \in Slots /\ environ[i] # Null
  BY Scans DEF Live, Slots, Inv, TypeOK
<1>5. size' = size /\ array' = array /\ Slots' = Slots  BY DEF Replace, Slots
<1>6. environ' \in [Slots -> Entry \cup {Null}]
  BY <1>1, <1>3 DEF Inv, TypeOK
<1>7. \A j \in Slots : environ'[j] = IF j = i THEN e ELSE environ[j]
  BY <1>1 DEF Inv, TypeOK
<1>8. Live' = Live
  <2>1. \A j \in Slots : environ'[j] = Null <=> environ[j] = Null  BY <1>3, <1>4, <1>7
  <2>2. \A j \in Slots : 0 .. j \subseteq Slots  BY DEF Slots, Inv, TypeOK
  <2> QED  BY <1>5, <2>1, <2>2 DEF Live
<1>9. environ[i].name = n  BY <1>1 DEF IsLast, Hits
<1>10. TypeOK'
  <2>1. heap' \subseteq Blocks /\ lost' \subseteq Blocks
    BY <1>2, <1>3, LiveEntries DEF Inv, TypeOK, Settle, Entry
  <2> QED  BY <1>5, <1>6, <2>1 DEF Inv, TypeOK
<1>11. Terminated'
  <2>1. SUFFICES ASSUME array # Null
                 PROVE  \E k \in Slots : environ'[k] = Null /\ \A j \in 0 .. k - 1 : environ'[j] # Null
    BY <1>5 DEF Terminated
  <2>2. Count \in Slots /\ environ[Count] = Null /\ Count # i
    BY <1>4, <2>1 DEF Scanned, Slots, Inv, TypeOK
  <2>3. \A j \in 0 .. Count - 1 : j \in Live /\ j \in Slots /\ environ[j] # Null
    BY <1>4 DEF Scanned, Live
  <2> QED  BY <1>3, <1>7, <2>2, <2>3
<1>12. NamesOnce'  BY <1>7, <1>8, <1>9, LiveEntries DEF Inv, NamesOnce
<1>13. Owned'
  <2>1. old \in heap /\ old \notin lost /\ old # array /\ old # b
    BY <1>3 DEF Inv, Owned, Held
  <2>2. Held' = (Held \ {old}) \cup {b}
    <3>1. \A j \in Live : environ'[j].at = IF j = i THEN b ELSE environ[j].at
      BY <1>7, LiveEntries
    <3>2. \A j \in Live : j # i => environ[j].at # old  BY DEF Inv, Owned
    <3> QED  BY <1>5, <1>8, <2>1, <3>1, <3>2 DEF Held
  <2>3. heap' = (heap \cup {b}) \ ({old} \ m) /\ lost' = lost \cup m  BY <1>2 DEF Settle
  <2>4. heap' = Held' \cup lost' /\ Held' \cap lost' = {}
    BY <1>2, <1>3, <2>1, <2>2, <2>3 DEF Inv, Owned
  <2>5. \A j \in Live : j # i => environ[j].at # b
    BY <1>3 DEF Inv, Owned, Held
  <2>6. array # b \/ array = Null
    BY <1>3 DEF Inv, Owned, Held
  <2>7. b # array  BY <1>3, <2>6, EnvironmentAssumption
  <2>8. \A j \in Live : environ'[j].at = IF j = i THEN b ELSE environ[j].at
      BY <1>7, LiveEntries
  <2> QED  BY <1>5, <1>8, <2>4, <2>5, <2>7, <2>8 DEF Inv, Owned
<1>14. <<n, environ[i].value>> \in Pairs  BY <1>9 DEF Pairs
<1>15. Pairs' = {q \in Pairs : q[1] # n} \cup {<<n, v>>}
  <2>1. \A j \in Live : environ'[j].name = environ[j].name
                        /\ environ'[j].value = IF j = i THEN v ELSE environ[j].value
    BY <1>7, <1>9, LiveEntries
  <2>2. \A j \in Live : j # i => environ[j].name # n  BY <1>9 DEF Inv, NamesOnce
  <2>3. Pairs' = {<<environ'[j].name, environ'[j].value>> : j \in Live}  BY <1>8 DEF Pairs
  <2> QED  BY <1>9, <2>1, <2>2, <2>3 DEF Pairs
<1> QED  BY <1>10, <1>11, <1>12, <1>13, <1>14, <1>15 DEF Inv

LEMMA ExtendKeeps ==
  ASSUME Inv, NEW n \in Names, NEW v \in Values, ~IsSet(n, NoPart), Extend(n, v)
  PROVE  Inv' /\ Pairs' = Pairs \cup {<<n, v>>}
<1>1. PICK b \in Granted(heap), c \in Blocks :
        /\ c \in Granted(heap \cup {b})
        /\ \E m \in SUBSET ({array} \ {Null}) : Settle({b, c}, {array} \ {Null}, m)
        /\ environ' = Grown([name |-> n, value |-> v, at |-> b])
        /\ array' = c
  BY DEF Extend, Granted
<1>2. PICK m \in SUBSET ({array} \ {Null}) : Settle({b, c}, {array} \ {Null}, m)  BY <1>1
<1> DEFINE e == [name |-> n, value |-> v, at |-> b]
<1>3. b \in Blocks /\ c \in Blocks /\ b \notin heap /\ c \notin heap /\ b # c
  BY <1>1 DEF Granted
<1>4. e \in Entry /\ e # Null /\ c # Null
  BY <1>3, EnvironmentAssumption DEF Entry
<1>5. Scanned /\ Count \in Nat /\ size \in Nat  BY Scans DEF Scanned, Inv, TypeOK
<1>6. size' = Count + 2 /\ Slots' = 0 .. Count + 1  BY <1>5 DEF Extend, NewSize, Slots
<1>7. \A j \in 0 .. Count + 1 :
        environ'[j] = IF j < Count THEN environ[j] ELSE IF j = Count THEN e ELSE Null
  BY <1>1, <1>5 DEF Grown, NewSize
<1>8. \A j \in 0 .. Count - 1 : j \in Live /\ environ[j] \in Entry /\ environ[j] # Null
  BY <1>5, LiveEntries, EnvironmentAssumption DEF Scanned
<1>9. Live' = 0 .. Count
  <2>1. Count + 1 \in 0 .. Count + 2 /\ Count + 2 \in Nat  BY <1>5
  <2>2. \A j \in 0 .. (Count + 1) - 1 : environ'[j] # Null  BY <1>4, <1>5, <1>7, <1>8
  <2>3. environ'[Count + 1] = Null  BY <1>5, <1>7
  <2>4. {i \in 0 .. (Count + 2) - 1 : \A k \in 0 .. i : environ'[k] # Null} = 0 .. (Count + 1) - 1
    BY <2>1, <2>2, <2>3, FrontOf
  <2>5. Live' = {i \in 0 .. (Count + 2) - 1 : \A k \in 0 .. i : environ'[k] # Null}
    BY <1>5, <1>6 DEF Live
  <2> QED  BY <1>5, <2>4, <2>5
<1>10. TypeOK'
  <2>1. environ' \in [Slots' -> Entry \cup {Null}]
    BY <1>1, <1>4, <1>5, <1>6, <1>8 DEF Grown, NewSize
  <2>2. heap' \subseteq Blocks /\ lost' \subseteq Blocks
    BY <1>2, <1>3, EnvironmentAssumption DEF Inv, TypeOK, Settle
  <2> QED  BY <1>1, <1>3, <1>4, <1>5, <1>6, <2>1, <2>2 DEF TypeOK
<1>11. Terminated'
  <2>1. Count + 1 \in Slots' /\ environ'[Count + 1] = Null  BY <1>5, <1>6, <1>7
  <2>2. \A j \in 0 .. (Count + 1) - 1 : environ'[j] # Null  BY <1>4, <1>5, <1>7, <1>8
  <2> QED  BY <2>1, <2>2 DEF Terminated
<1>12. \A j \in Live' : environ'[j] = IF j = Count THEN e ELSE environ[j]
  BY <1>5, <1>7, <1>9
<1>13. \A j \in Live' : j # Count => j \in Live  BY <1>5, <1>8, <1>9
<1>14. NamesOnce'
  <2>1. \A j \in Live : environ[j].name # n  BY DEF IsSet, Hits
  <2>2. \A j \in Live' : j # Count => environ'[j].name # n  BY <1>12, <1>13, <2>1
  <2>3. \A j \in Live' : j = Count => environ'[j].name = n  BY <1>12
  <2>4. \A i, j \in Live' : i # Count /\ j # Count /\ environ'[i].name = environ'[j].name => i = j
    BY <1>12, <1>13 DEF Inv, NamesOnce
  <2> QED  BY <2>2, <2>3, <2>4 DEF NamesOnce
<1>15. Owned'
  <2>1. \A j \in Live' : environ'[j].at = IF j = Count THEN b ELSE environ[j].at  BY <1>12
  <2>2. {environ'[j].at : j \in Live'} = {environ[j].at : j \in Live} \cup {b}
    <3>1. \A j \in Live : j \in Live' /\ j # Count  BY <1>5, <1>9 DEF Scanned
    <3>2. Count \in Live'  BY <1>5, <1>9
    <3> QED  BY <1>13, <2>1, <3>1, <3>2
  <2>3. Held' = {c, b} \cup {environ[j].at : j \in Live}  BY <1>1, <1>4, <2>2 DEF Held
  <2>4. heap' = (heap \cup {b, c}) \ (({array} \ {Null}) \ m) /\ lost' = lost \cup m
    BY <1>2 DEF Settle
  <2>5. \A j \in Live : environ[j].at \in heap /\ environ[j].at # array /\ environ[j].at \notin lost
    BY DEF Inv, Owned, Held
  <2>6. heap = ({array} \ {Null}) \cup {environ[j].at : j \in Live} \cup lost
        /\ ({array} \ {Null}) \cap lost = {}
    BY DEF Inv, Owned, Held
  <2>7. heap' = Held' \cup lost'  BY <1>2, <1>3, <2>3, <2>4, <2>5, <2>6
  <2>8. Held' \cap lost' = {}  BY <1>2, <1>3, <2>3, <2>4, <2>5, <2>6
  <2>9. \A i, j \in Live' : environ'[i].at = environ'[j].at => i = j
    BY <1>3, <1>13, <2>1, <2>5 DEF Inv, Owned
  <2>10. \A i \in Live' : environ'[i].at # array'
    BY <1>1, <1>3, <1>13, <2>1, <2>5
  <2> QED  BY <2>7, <2>8, <2>9, <2>10 DEF Owned
<1>16. Pairs' = Pairs \cup {<<n, v>>}
  <2>1. Live' = Live \cup {Count} /\ Count \notin Live  BY <1>5, <1>9 DEF Scanned
  <2>2. \A j \in Live : environ'[j] = environ[j]  BY <1>12, <2>1
  <2>3. environ'[Count] = e  BY <1>12, <2>1
  <2> QED  BY <2>1, <2>2, <2>3 DEF Pairs
<1> QED  BY <1>10, <1>11, <1>14, <1>15, <1>16 DEF Inv

LEMMA RemoveKeeps ==
  ASSUME Inv, array # Null, NEW n, NEW p, Remove(n, p)
  PROVE  /\ Inv'
         /\ \E i \in Live : /\ Hits(environ[i], n, p)
                           /\ Pairs' = Pairs \ {<<environ[i].name, environ[i].value>>}
<1>1. PICK i \in Live :
        /\ IsFirst(i, n, p)
        /\ \E m \in SUBSET {environ[i].at} : Settle({}, {environ[i].at}, m)
        /\ environ' = Shifted(i)
  BY DEF Remove
<1>2. PICK m \in SUBSET {environ[i].at} : Settle({}, {environ[i].at}, m)  BY <1>1
<1> DEFINE old == environ[i].at
           From(j) == IF j < i THEN j ELSE j + 1
<1>3. Scanned /\ size \in Nat /\ Count \in 0 .. size - 1 /\ environ[Count] = Null
      /\ Live = 0 .. Count - 1 /\ i \in 0 .. Count - 1
  BY Scans DEF Scanned, Inv, TypeOK
<1>4. size' = size /\ array' = array /\ Slots' = Slots /\ Slots = 0 .. size - 1
  BY DEF Remove, Slots
<1>5. \A j \in Slots :
        environ'[j] = IF i <= j /\ j < Count THEN environ[j + 1] ELSE environ[j]
  BY <1>1 DEF Shifted
<1>6. \A j \in 0 .. Count - 2 : From(j) \in Live /\ From(j) # i /\ environ'[j] = environ[From(j)]
  BY <1>3, <1>4, <1>5
<1>7. environ'[Count - 1] = Null  BY <1>3, <1>4, <1>5
<1>8. \A j \in Live : environ[j] \in Entry /\ environ[j] # Null
  BY LiveEntries, EnvironmentAssumption
<1>9. \A j \in 0 .. Count - 2 : environ'[j] # Null  BY <1>6, <1>8
<1>10. Live' = 0 .. Count - 2
  <2>1. Count - 1 \in 0 .. size  BY <1>3
  <2>2. \A j \in 0 .. (Count - 1) - 1 : environ'[j] # Null  BY <1>3, <1>9
  <2>3. {k \in 0 .. size - 1 : \A l \in 0 .. k : environ'[l] # Null} = 0 .. (Count - 1) - 1
    BY <1>3, <1>7, <2>1, <2>2, FrontOf
  <2>4. Live' = {k \in 0 .. size - 1 : \A l \in 0 .. k : environ'[l] # Null}
    BY <1>4 DEF Live
  <2>5. (Count - 1) - 1 = Count - 2  BY <1>3
  <2> QED  BY <2>3, <2>4, <2>5
<1>11. TypeOK'
  <2>1. environ' \in [Slots -> Entry \cup {Null}]
    BY <1>1, <1>3, <1>4 DEF Shifted, Inv, TypeOK
  <2>2. heap' \subseteq Blocks /\ lost' \subseteq Blocks
    BY <1>2, <1>8 DEF Inv, TypeOK, Settle, Entry
  <2> QED  BY <1>4, <2>1, <2>2 DEF Inv, TypeOK
<1>12. Terminated'
  <2>1. Count - 1 \in Slots' /\ environ'[Count - 1] = Null  BY <1>3, <1>4, <1>7
  <2>2. \A j \in 0 .. (Count - 1) - 1 : environ'[j] # Null  BY <1>3, <1>9
  <2> QED  BY <2>1, <2>2 DEF Terminated
<1>13. \A j, k \in Live' : From(j) = From(k) => j = k  BY <1>3, <1>10
<1>14. NamesOnce'
  BY <1>6, <1>10, <1>13 DEF Inv, NamesOnce
<1>15. \A k \in Live : k # i => \E j \in Live' : From(j) = k
  <2> SUFFICES ASSUME NEW k \in Live, k # i  PROVE \E j \in Live' : From(j) = k
    OBVIOUS
  <2>1. CASE k < i  BY <1>3, <1>10, <2>1
  <2>2. CASE k > i
    <3>1. k - 1 \in Live' /\ From(k - 1) = k  BY <1>3, <1>10, <2>2
    <3> QED  BY <3>1
  <2> QED  BY <1>3, <2>1, <2>2
<1>16. Owned'
  <2>1. {environ'[j].at : j \in Live'} = {environ[k].at : k \in Live} \ {old}
    <3>1. \A k \in Live : k # i => environ[k].at # old  BY DEF Inv, Owned
    <3>2. \A j \in Live' : From(j) \in Live /\ From(j) # i /\ environ'[j].at = environ[From(j)].at
      BY <1>6, <1>10
    <3> QED  BY <1>15, <3>1, <3>2
  <2>2. Held' = Held \ {old}  BY <1>4, <2>1 DEF Held, Inv, Owned
  <2>3. old \in heap /\ old \notin lost  BY DEF Inv, Owned, Held
  <2>4. heap' = heap \ ({old} \ m) /\ lost' = lost \cup m  BY <1>2 DEF Settle
  <2>5. heap' = Held' \cup lost' /\ Held' \cap lost' = {}
    BY <1>2, <2>2, <2>3, <2>4 DEF Inv, Owned
  <2>6. \A j, k \in Live' : environ'[j].at = environ'[k].at => j = k
    BY <1>6, <1>10, <1>13 DEF Inv, Owned
  <2>7. \A j \in Live' : environ'[j].at # array'
    BY <1>4, <1>6, <1>10 DEF Inv, Owned
  <2> QED  BY <2>5, <2>6, <2>7 DEF Owned
<1>17. Pairs' = Pairs \ {<<environ[i].name, environ[i].value>>}
  <2>1. \A k \in Live : k # i => environ[k].name # environ[i].name  BY DEF Inv, NamesOnce
  <2>2. \A j \in Live' : From(j) \in Live /\ From(j) # i /\ environ'[j] = environ[From(j)]
    BY <1>6, <1>10
  <2> QED  BY <1>15, <2>1, <2>2 DEF Pairs
<1>18. Hits(environ[i], n, p)  BY <1>1 DEF IsFirst
<1> QED  BY <1>11, <1>12, <1>14, <1>16, <1>17, <1>18 DEF Inv

------------------------------------------------------------------------------
(* A call that changes nothing but the record of the last call.            *)
LEMMA RefuseKeeps ==
  ASSUME Inv, Refuse
  PROVE  Inv'
<1>1. heap' = heap \cup {} /\ lost' = lost \cup {} /\ Same  BY DEF Refuse, memory
<1> QED  BY <1>1, LosesBlocks

LEMMA SamePairs ==
  ASSUME Same
  PROVE  Pairs' = Pairs
  BY DEF Same, Pairs, Live, Slots

LEMMA Step ==
  ASSUME Inv, [Next]_vars
  PROVE  Inv'
<1>1. CASE UNCHANGED vars
  <2>1. Refuse  BY <1>1 DEF vars, Refuse, Same, memory
  <2> QED  BY <2>1, RefuseKeeps
<1>2. ASSUME NEW n \in Names \cup {Null}, NEW p \in Parts \cup {NoPart},
             NEW v \in Values \cup {Null}, NEW o \in BOOLEAN, eclib_setenv(n, p, v, o)
      PROVE  Inv'
  <2>1. CASE Refuse  BY <2>1, RefuseKeeps
  <2>2. CASE NoString  BY <2>2, NoStringKeeps
  <2>3. CASE Usable(n, p, v) /\ Replace(n, v)
    <3>1. n \in Names /\ v \in Values  BY <2>3 DEF Usable
    <3> QED  BY <2>3, <3>1, ReplaceKeeps
  <2>4. CASE NoArray  BY <2>4, NoArrayKeeps
  <2>5. CASE Usable(n, p, v) /\ ~IsSet(n, p) /\ Extend(n, v)
    <3>1. n \in Names /\ v \in Values /\ p = NoPart  BY <2>5 DEF Usable
    <3> QED  BY <2>5, <3>1, ExtendKeeps
  <2> QED  BY <1>2, <2>1, <2>2, <2>3, <2>4, <2>5 DEF eclib_setenv
<1>3. ASSUME NEW n \in Names \cup {Null}, NEW p \in Parts \cup {NoPart}, eclib_unsetenv(n, p)
      PROVE  Inv'
  <2>1. CASE Refuse  BY <2>1, RefuseKeeps
  <2>2. CASE array # Null /\ Remove(n, p)  BY <2>2, RemoveKeeps
  <2> QED  BY <1>3, <2>1, <2>2 DEF eclib_unsetenv
<1> QED  BY <1>1, <1>2, <1>3 DEF Next

LEMMA Start == Init => Inv
<1> SUFFICES ASSUME Init  PROVE Inv
  OBVIOUS
<1>1. Slots = {} /\ Live = {}  BY DEF Init, Slots, Live
<1>2. TypeOK  BY <1>1 DEF Init, TypeOK
<1> QED  BY <1>1, <1>2 DEF Init, Inv, Terminated, NamesOnce, Owned, Held

(* The inductive invariant holds of every reachable state. *)
THEOREM InvHolds == Spec => []Inv
<1> QED  BY Start, Step, PTL DEF Spec

(* For any names, values and memory the array and its counters keep their  *)
(* types (src/src/env/env.c:26-95).                                        *)
THEOREM TypesHold == Spec => []TypeOK
<1>1. Inv => TypeOK  BY DEF Inv
<1> QED  BY <1>1, InvHolds, PTL

(* No name is in the environment twice, so setenv and getenv mean the same *)
(* entry.                                                                  *)
THEOREM NamesAlwaysOnce == Spec => []NamesOnce
<1>1. Inv => NamesOnce  BY DEF Inv
<1> QED  BY <1>1, InvHolds, PTL

(* For any names, values and memory the array ends with a NULL inside its  *)
(* block: no loop of env.c leaves it.                                      *)
THEOREM AlwaysTerminated == Spec => []Terminated
<1>1. Inv => Terminated  BY DEF Inv
<1> QED  BY <1>1, InvHolds, PTL

(* However allocations fail, the environment points to allocated blocks    *)
(* only, to each once, and leaks none that was answered for.               *)
THEOREM AlwaysOwned == Spec => []Owned
<1>1. Inv => Owned  BY DEF Inv
<1> QED  BY <1>1, InvHolds, PTL

------------------------------------------------------------------------------
(* eclib_getenv answers with the value that stands next to the name. *)
Answers ==
  /\ \A n, v : <<n, v>> \in Pairs =>
       n \in Names /\ v \in Values /\ v # Null /\ eclib_getenv(n, NoPart) = v
  /\ \A n : (\A v : <<n, v>> \notin Pairs) => eclib_getenv(n, NoPart) = Null

LEMMA GetenvAnswers == Inv => Answers
<1> SUFFICES ASSUME Inv  PROVE Answers
  OBVIOUS
<1>1. Scanned  BY Scans
<1>2. ASSUME NEW i \in Live
      PROVE  /\ environ[i].name \in Names
             /\ environ[i].value \in Values
             /\ eclib_getenv(environ[i].name, NoPart) = environ[i].value
  <2> DEFINE n == environ[i].name
  <2>1. environ[i] \in Entry  BY LiveEntries
  <2>2. IsFirst(i, n, NoPart)
    <3>1. \A k \in 0 .. i - 1 : k \in Live /\ k # i  BY <1>1 DEF Scanned
    <3> QED  BY <3>1 DEF IsFirst, Hits, Inv, NamesOnce
  <2>3. \A j \in Live : IsFirst(j, n, NoPart) => j = i
    BY DEF IsFirst, Hits, Inv, NamesOnce
  <2>4. IsSet(n, NoPart)  BY DEF IsSet, Hits
  <2>5. (CHOOSE j \in Live : IsFirst(j, n, NoPart)) = i  BY <2>2, <2>3
  <2>6. eclib_getenv(n, NoPart) = environ[i].value  BY <2>4, <2>5 DEF eclib_getenv
  <2> QED  BY <2>1, <2>6 DEF Entry
<1>3. ASSUME NEW n, \A v : <<n, v>> \notin Pairs
      PROVE  eclib_getenv(n, NoPart) = Null
  <2>1. ~IsSet(n, NoPart)  BY <1>3 DEF IsSet, Hits, Pairs
  <2> QED  BY <2>1 DEF eclib_getenv
<1> QED  BY <1>2, <1>3, EnvironmentAssumption DEF Answers, Pairs

LEMMA GetenvAnswersNext == Inv' => Answers'
  BY GetenvAnswers, PTL

(* The map as callers of eclib_getenv see it. *)
Seen == [n \in Names |-> eclib_getenv(n, NoPart)]

LEMMA SeenSame ==
  ASSUME Inv, Inv', Pairs' = Pairs
  PROVE  Seen' = Seen
<1>1. Answers /\ Answers'  BY GetenvAnswers, GetenvAnswersNext
<1>2. \A n \in Names : eclib_getenv(n, NoPart)' = eclib_getenv(n, NoPart)
  BY <1>1 DEF Answers
<1> QED  BY <1>2 DEF Seen

LEMMA SeenSet ==
  ASSUME Inv, Inv', NEW n \in Names, NEW v,
         Pairs' = {q \in Pairs : q[1] # n} \cup {<<n, v>>}
  PROVE  Seen' = [Seen EXCEPT ![n] = v]
<1>1. Answers /\ Answers'  BY GetenvAnswers, GetenvAnswersNext
<1>2. eclib_getenv(n, NoPart)' = v  BY <1>1 DEF Answers
<1>3. ASSUME NEW m \in Names, m # n
      PROVE  eclib_getenv(m, NoPart)' = eclib_getenv(m, NoPart)
  <2>1. \A w : <<m, w>> \in Pairs' <=> <<m, w>> \in Pairs  BY <1>3
  <2> QED  BY <1>1, <2>1 DEF Answers
<1> QED  BY <1>2, <1>3 DEF Seen

LEMMA SeenCleared ==
  ASSUME Inv, Inv', NEW n \in Names, NEW v, <<n, v>> \in Pairs,
         Pairs' = Pairs \ {<<n, v>>}
  PROVE  Seen' = [Seen EXCEPT ![n] = Null]
<1>1. Answers /\ Answers'  BY GetenvAnswers, GetenvAnswersNext
<1>2. \A w : <<n, w>> \notin Pairs'  BY <1>1 DEF Answers
<1>3. eclib_getenv(n, NoPart)' = Null  BY <1>1, <1>2 DEF Answers
<1>4. ASSUME NEW m \in Names, m # n
      PROVE  eclib_getenv(m, NoPart)' = eclib_getenv(m, NoPart)
  <2>1. \A w : <<m, w>> \in Pairs' <=> <<m, w>> \in Pairs  BY <1>4
  <2> QED  BY <1>1, <2>1 DEF Answers
<1> QED  BY <1>3, <1>4 DEF Seen

LEMMA SetIsSeen ==
  ASSUME Inv, NEW n \in Names
  PROVE  \A p : IsSet(n, p) <=>
           Seen[n] # Null /\ (p = NoPart \/ <<p, Seen[n]>> \in Starts)
<1>1. Answers  BY GetenvAnswers
<1>2. \A p : IsSet(n, p) <=>
        \E v : <<n, v>> \in Pairs /\ (p = NoPart \/ <<p, v>> \in Starts)
  BY DEF IsSet, Hits, Pairs
<1> QED  BY <1>1, <1>2 DEF Answers, Seen

LEMMA StepRefines ==
  ASSUME Inv, [Next]_vars
  PROVE  [Map!Next]_(Map!vars)
<1> USE DEF Map!Keep, Map!Proper, Map!Wanted, Map!Meant, Map!Call, Map!Refused, Seen
<1>1. Inv'  BY Step
<1>2. CASE UNCHANGED vars
  <2>1. Same /\ last' = last  BY <1>2 DEF vars, Same
  <2>2. Seen' = Seen  BY <1>1, <2>1, SamePairs, SeenSame
  <2> QED  BY <2>1, <2>2 DEF Map!vars
<1>3. ASSUME NEW n \in Names \cup {Null}, NEW p \in Parts \cup {NoPart},
             NEW v \in Values \cup {Null}, NEW o \in BOOLEAN, eclib_setenv(n, p, v, o)
      PROVE  Map!Set(n, p, v, o)
  <2>1. PICK ret \in {0, -1} :
          /\ last' = IF Usable(n, p, v) THEN Call("setenv", n, p, v, o, ret) ELSE Refused
          /\ \/ ~Usable(n, p, v) /\ ret = -1 /\ Refuse
             \/ Usable(n, p, v) /\ IsSet(n, p) /\ ~o /\ ret = 0 /\ Refuse
             \/ Usable(n, p, v) /\ (IsSet(n, p) => o) /\ ret = -1 /\ NoString
             \/ Usable(n, p, v) /\ o /\ ret = 0 /\ Replace(n, v)
             \/ Usable(n, p, v) /\ ~IsSet(n, p) /\ ret = -1 /\ NoArray
             \/ Usable(n, p, v) /\ ~IsSet(n, p) /\ ret = 0 /\ Extend(n, v)
    BY <1>3 DEF eclib_setenv
  <2>2. Usable(n, p, v) <=> Map!Proper(n, p, v)  BY DEF Usable
  <2>3. last' = IF Map!Proper(n, p, v) THEN Map!Call("setenv", n, p, v, o, ret) ELSE Map!Refused
    BY <2>1, <2>2 DEF Call, Refused
  <2>4. Usable(n, p, v) => n \in Names /\ v \in Values /\ p = NoPart  BY DEF Usable
  <2>5. Usable(n, p, v) => (IsSet(n, p) <=> Seen[n] # Null)  BY <2>4, SetIsSeen
  <2>6. Same => Seen' = Seen  BY <1>1, SamePairs, SeenSame
  <2>7. CASE ~Usable(n, p, v) /\ ret = -1 /\ Refuse
    BY <2>2, <2>3, <2>6, <2>7 DEF Map!Set, Refuse
  <2>8. CASE Usable(n, p, v) /\ IsSet(n, p) /\ ~o /\ ret = 0 /\ Refuse
    BY <2>2, <2>3, <2>5, <2>6, <2>8 DEF Map!Set, Refuse
  <2>9. CASE Usable(n, p, v) /\ (IsSet(n, p) => o) /\ ret = -1 /\ NoString
    BY <2>2, <2>3, <2>5, <2>6, <2>9 DEF Map!Set, NoString
  <2>10. CASE Usable(n, p, v) /\ o /\ ret = 0 /\ Replace(n, v)
    <3>1. Pairs' = {q \in Pairs : q[1] # n} \cup {<<n, v>>}
      BY <2>4, <2>10, ReplaceKeeps
    <3>2. Seen' = [Seen EXCEPT ![n] = v]  BY <1>1, <2>4, <2>10, <3>1, SeenSet
    <3> QED  BY <2>2, <2>3, <2>10, <3>2 DEF Map!Set
  <2>11. CASE Usable(n, p, v) /\ ~IsSet(n, p) /\ ret = -1 /\ NoArray
    BY <2>2, <2>3, <2>5, <2>6, <2>11 DEF Map!Set, NoArray
  <2>12. CASE Usable(n, p, v) /\ ~IsSet(n, p) /\ ret = 0 /\ Extend(n, v)
    <3>1. Pairs' = Pairs \cup {<<n, v>>}  BY <2>4, <2>12, ExtendKeeps
    <3>2. \A q \in Pairs : q[1] # n  BY <2>4, <2>12 DEF Pairs, IsSet, Hits
    <3>3. Pairs' = {q \in Pairs : q[1] # n} \cup {<<n, v>>}  BY <3>1, <3>2
    <3>4. Seen' = [Seen EXCEPT ![n] = v]  BY <1>1, <2>4, <2>12, <3>3, SeenSet
    <3> QED  BY <2>2, <2>3, <2>5, <2>12, <3>4 DEF Map!Set
  <2> QED  BY <2>1, <2>7, <2>8, <2>9, <2>10, <2>11, <2>12
<1>4. ASSUME NEW n \in Names \cup {Null}, NEW p \in Parts \cup {NoPart}, eclib_unsetenv(n, p)
      PROVE  Map!Unset(n, p)
  <2>1. PICK ret \in {0, -1} :
          /\ last' = Call("unsetenv", n, p, Null, FALSE, ret)
          /\ \/ (n = Null \/ array = Null) /\ ret = -1 /\ Refuse
             \/ n # Null /\ array # Null /\ ~IsSet(n, p) /\ ret = 0 /\ Refuse
             \/ n # Null /\ array # Null /\ ret = 0 /\ Remove(n, p)
    BY <1>4 DEF eclib_unsetenv
  <2>2. last' = Map!Call("unsetenv", n, p, Null, FALSE, ret)  BY <2>1 DEF Call
  <2>3. Refuse => Seen' = Seen  BY <1>1, SamePairs, SeenSame DEF Refuse
  <2>4. CASE n = Null /\ ret = -1 /\ Refuse  BY <2>2, <2>3, <2>4 DEF Map!Unset
  <2>5. CASE array = Null /\ ret = -1 /\ Refuse
    <3>1. Live = {}  BY <2>5, Scans DEF Scanned
    <3>2. \A m \in Names : Seen[m] = Null
      BY <3>1, SetIsSeen DEF IsSet
    <3> QED  BY <2>2, <2>3, <2>5, <3>2 DEF Map!Unset
  <2>6. CASE n # Null /\ array # Null /\ ~IsSet(n, p) /\ ret = 0 /\ Refuse
    <3>1. ~Map!Meant(n, p)  BY <2>6, SetIsSeen
    <3> QED  BY <2>2, <2>3, <2>6, <3>1 DEF Map!Unset
  <2>7. CASE n # Null /\ array # Null /\ ret = 0 /\ Remove(n, p)
    <3>1. PICK i \in Live : /\ Hits(environ[i], n, p)
                            /\ Pairs' = Pairs \ {<<environ[i].name, environ[i].value>>}
      BY <2>7, RemoveKeeps
    <3>2. environ[i].name = n /\ IsSet(n, p) /\ <<n, environ[i].value>> \in Pairs
      BY <3>1 DEF Hits, IsSet, Pairs
    <3>3. PICK w : w = environ[i].value  OBVIOUS
    <3>4. Seen' = [Seen EXCEPT ![n] = Null]
      BY <1>1, <2>7, <3>1, <3>2, <3>3, SeenCleared
    <3>5. Map!Meant(n, p)  BY <2>7, <3>2, SetIsSeen
    <3> QED  BY <2>2, <2>7, <3>4, <3>5 DEF Map!Unset
  <2> QED  BY <2>1, <2>4, <2>5, <2>6, <2>7
<1> HIDE DEF Map!Keep, Map!Proper, Map!Wanted, Map!Meant, Map!Call, Map!Refused, Seen
<1>5. CASE Next
  <2>1. PICK n \in Names \cup {Null}, p \in Parts \cup {NoPart} :
          \/ \E v \in Values \cup {Null}, o \in BOOLEAN : eclib_setenv(n, p, v, o)
          \/ eclib_unsetenv(n, p)
    BY <1>5 DEF Next
  <2>2. \/ \E v \in Values \cup {Null}, o \in BOOLEAN : Map!Set(n, p, v, o)
        \/ Map!Unset(n, p)
    BY <1>3, <1>4, <2>1
  <2>3. Map!Next  BY <2>2 DEF Map!Next
  <2> QED  BY <2>3
<1> QED  BY <1>2, <1>5

(* env.c implements the abstract map: for any names, values and memory,    *)
(* what eclib_getenv answers changes by the one variable a successful call *)
(* names, and not at all by a call that fails.                             *)
THEOREM Refinement == Spec => ImplementsEnvMap
<1>1. Init => Map!Init
  <2> SUFFICES ASSUME Init  PROVE Map!Init
    OBVIOUS
  <2>1. Live = {}  BY DEF Init, Live, Slots
  <2>2. \A n \in Names : eclib_getenv(n, NoPart) = Null
    BY <2>1 DEF eclib_getenv, IsSet
  <2> QED  BY <2>2 DEF Init, Map!Init, Call, Map!Call
<1>2. Inv /\ [Next]_vars => [Map!Next]_(Map!vars)  BY StepRefines
<1> QED  BY <1>1, <1>2, InvHolds, PTL DEF Spec, ImplementsEnvMap, Map!Spec
==============================================================================
