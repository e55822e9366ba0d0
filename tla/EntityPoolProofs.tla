-------------------------- MODULE EntityPoolProofs --------------------------
(***************************************************************************)
(* For any number of addresses, names, classes and signals: the names in   *)
(* the pool lead to live entities, but for those that the caller knows to  *)
(* dangle, and no entity is lost.  The signals an entity has registered    *)
(* play no part.                                                           *)
(***************************************************************************)
EXTENDS EntityPool, NatLemmas, SequenceTheorems, TLAPS

\* An entity, whatever its signals are.
Entity(x) ==
  /\ x = [name |-> x.name, class |-> x.class, signals |-> x.signals]
  /\ x.name \in Names

Shapes ==
  /\ entity = [e \in Addresses |-> entity[e]]
  /\ \A e \in Addresses : entity[e] = Dead \/ Entity(entity[e])
  /\ entityMap \in [Names -> Addresses \cup {Null}]
  /\ loose \subseteq Addresses /\ owed \subseteq Names

\* What the caller has taken out is alive, and the pool leads to it no more,
\* unless by a name that the caller knows to dangle.
LooseIsOut ==
  \A e \in loose : Alive(e) /\ \A n \in Names \ owed : entityMap[n] # e

\* A name that the caller knows to dangle is in the pool; an entity that is
\* there now was made under another name.
OwedDangles ==
  \A n \in owed : Exists(n) /\ (Alive(entityMap[n]) => entity[entityMap[n]].name # n)

PoolInv == Shapes /\ PoolEntriesLive /\ NoOrphan /\ LooseIsOut /\ OwedDangles

LEMMA InitPool == Init => PoolInv
BY PoolAssumption DEF Init, PoolInv, Shapes, PoolEntriesLive, NoOrphan, LooseIsOut,
   OwedDangles, Alive, Exists

\* An entity that is made is one, and not none.
LEMMA EntityMade ==
  ASSUME NEW n \in Names, NEW c, NEW s
  PROVE  LET x == [name |-> n, class |-> c, signals |-> s]
         IN  Entity(x) /\ x # Dead /\ x.name = n
BY PoolAssumption DEF Entity, Dead

\* Changing the signals of an entity leaves an entity of the same name.
LEMMA SignalsChanged ==
  ASSUME NEW x, NEW s, Entity(x)
  PROVE  LET y == [x EXCEPT !.signals = s]
         IN  Entity(y) /\ y # Dead /\ y.name = x.name
BY PoolAssumption DEF Entity, Dead

(***************************************************************************)
(* Preservation, by the kinds of steps.                                    *)
(***************************************************************************)

\* Only the factory or the array changes.
LEMMA StepElsewhere ==
  ASSUME PoolInv, UNCHANGED <<entity, entityMap, loose, owed>>
  PROVE  PoolInv'
BY DEF PoolInv, Shapes, PoolEntriesLive, NoOrphan, LooseIsOut, OwedDangles, Alive, Exists

LEMMA StepNewEntity ==
  ASSUME PoolInv, NEW c \in Classes, NEW n \in Names, NEW e \in Addresses, NewEntity(c, n, e)
  PROVE  PoolInv'
<1> DEFINE x == [name |-> n, class |-> c, signals |-> NoSignals]
<1>1. Entity(x) /\ x # Dead /\ x.name = n
  BY EntityMade
<1>2. /\ entity[e] = Dead /\ entityMap[n] = Null
      /\ entity' = [entity EXCEPT ![e] = x]
      /\ entityMap' = [entityMap EXCEPT ![n] = e]
      /\ UNCHANGED <<loose, owed>>
  BY DEF NewEntity, Construct, Register, Alive, Exists
<1> HIDE DEF x
<1>3. n \notin owed /\ e \notin loose /\ e # Null
  BY <1>2, PoolAssumption DEF PoolInv, LooseIsOut, OwedDangles, Exists, Alive
<1>4. Shapes'
  BY <1>1, <1>2 DEF PoolInv, Shapes
<1>5. PoolEntriesLive'
  BY <1>1, <1>2 DEF PoolInv, Shapes, PoolEntriesLive, Alive, Exists
<1>6. NoOrphan'
  BY <1>1, <1>2, <1>3, PoolAssumption DEF PoolInv, Shapes, NoOrphan, Alive, Entity
<1>7. LooseIsOut'
  BY <1>1, <1>2, <1>3 DEF PoolInv, Shapes, LooseIsOut, Alive
<1>8. OwedDangles'
  BY <1>1, <1>2, <1>3 DEF PoolInv, Shapes, OwedDangles, Alive, Exists
<1> QED
  BY <1>4, <1>5, <1>6, <1>7, <1>8 DEF PoolInv

LEMMA StepConstructorThrows ==
  ASSUME PoolInv, NEW c \in Classes, NEW n \in Names, NEW e \in Addresses,
         ConstructorThrows(c, n, e)
  PROVE  PoolInv'
<1>1. /\ ~Alive(e) /\ entityMap[n] = Null /\ e # Null
      /\ entityMap' = [entityMap EXCEPT ![n] = e]
      /\ owed' = owed \cup {n}
      /\ UNCHANGED <<entity, loose>>
  BY PoolAssumption DEF ConstructorThrows, Construct, Register, Exists
<1>2. Shapes'
  BY <1>1 DEF PoolInv, Shapes
<1>3. PoolEntriesLive'
  BY <1>1 DEF PoolInv, Shapes, PoolEntriesLive, Alive, Exists
<1>4. NoOrphan'
  BY <1>1, PoolAssumption DEF PoolInv, Shapes, NoOrphan, Alive, Entity
<1>5. LooseIsOut'
  BY <1>1 DEF PoolInv, Shapes, LooseIsOut, Alive
<1>6. OwedDangles'
  BY <1>1 DEF PoolInv, Shapes, OwedDangles, Alive, Exists
<1> QED
  BY <1>2, <1>3, <1>4, <1>5, <1>6 DEF PoolInv

LEMMA StepDeregister ==
  ASSUME PoolInv, NEW n \in Names, Deregister(n)
  PROVE  PoolInv'
<1>1. /\ entityMap[n] # Null /\ entityMap[n] \in Addresses
      /\ entityMap' = [entityMap EXCEPT ![n] = Null]
      /\ loose' = IF n \in owed THEN loose ELSE loose \cup {entityMap[n]}
      /\ owed' = owed \ {n}
      /\ UNCHANGED entity
  BY DEF Deregister, Exists, PoolInv, Shapes
<1>2. Shapes'
  BY <1>1 DEF PoolInv, Shapes
<1>3. PoolEntriesLive'
  BY <1>1 DEF PoolInv, Shapes, PoolEntriesLive, Alive, Exists
<1>4. NoOrphan'
  BY <1>1 DEF PoolInv, Shapes, NoOrphan, OwedDangles, Alive, Exists, Entity
<1>5. LooseIsOut'
  BY <1>1, PoolAssumption DEF PoolInv, Shapes, LooseIsOut, PoolEntriesLive, Alive, Exists
<1>6. OwedDangles'
  BY <1>1 DEF PoolInv, Shapes, OwedDangles, Alive, Exists
<1> QED
  BY <1>2, <1>3, <1>4, <1>5, <1>6 DEF PoolInv

LEMMA StepDelete ==
  ASSUME PoolInv, NEW e \in Addresses, Delete(e)
  PROVE  PoolInv'
<1>1. /\ Alive(e) /\ e # Null
      /\ entity' = [a \in Addresses |-> IF a = e THEN Dead ELSE entity[a]]
      /\ loose' = loose \ {e}
      /\ owed' = owed \cup {n \in Names : entityMap[n] = e}
      /\ UNCHANGED entityMap
  BY PoolAssumption DEF Delete, DeleteAll
<1>2. Shapes'
  BY <1>1 DEF PoolInv, Shapes
<1>3. PoolEntriesLive'
  BY <1>1 DEF PoolInv, Shapes, PoolEntriesLive, Alive, Exists
<1>4. NoOrphan'
  BY <1>1 DEF PoolInv, Shapes, NoOrphan, Alive
<1>5. LooseIsOut'
  BY <1>1 DEF PoolInv, Shapes, LooseIsOut, Alive
<1>6. OwedDangles'
  BY <1>1 DEF PoolInv, Shapes, OwedDangles, Alive, Exists
<1> QED
  BY <1>2, <1>3, <1>4, <1>5, <1>6 DEF PoolInv

LEMMA StepClearPlugin ==
  ASSUME PoolInv, NEW c \in Classes, ClearPlugin(c)
  PROVE  PoolInv'
<1>1. /\ owed = {}
      /\ entity' = [e \in Addresses |-> IF e \in OfClass(c) THEN Dead ELSE entity[e]]
      /\ owed' = {n \in Names : Exists(n) /\ entity[entityMap[n]].class = c}
      /\ UNCHANGED <<entityMap, loose>>
  BY DEF ClearPlugin, DeleteAll
<1>2. \A n \in Names : Exists(n) => entityMap[n] \in InPool /\ entityMap[n] \in Addresses
  BY DEF InPool, Exists, PoolInv, Shapes
<1>3. \A e \in OfClass(c) : e \in Addresses /\ entity[e].class = c
                          /\ \E n \in Names : Exists(n) /\ entityMap[n] = e
  BY <1>2 DEF OfClass, InPool
<1>4. \A n \in Names : Exists(n) => (entityMap[n] \in OfClass(c) <=> n \in owed')
  BY <1>1, <1>2 DEF OfClass
<1>5. Shapes'
  BY <1>1 DEF PoolInv, Shapes
<1>6. PoolEntriesLive'
  BY <1>1, <1>2, <1>4 DEF PoolInv, PoolEntriesLive, Alive, Exists
<1>7. NoOrphan'
  BY <1>1 DEF PoolInv, NoOrphan, Alive
<1>8. LooseIsOut'
  BY <1>1, <1>3 DEF PoolInv, Shapes, LooseIsOut, Alive, Exists
<1>9. OwedDangles'
  BY <1>1, <1>2, <1>4 DEF OwedDangles, Alive, Exists
<1> QED
  BY <1>5, <1>6, <1>7, <1>8, <1>9 DEF PoolInv

LEMMA StepDestroyPool ==
  ASSUME PoolInv, DestroyPool
  PROVE  PoolInv'
<1>1. /\ owed = {}
      /\ entity' = [e \in Addresses |-> IF e \in InPool THEN Dead ELSE entity[e]]
      /\ entityMap' = [n \in Names |-> Null]
      /\ UNCHANGED <<loose, owed>>
  BY DEF DestroyPool, DeleteAll
<1>2. \A e \in InPool : \E n \in Names : Exists(n) /\ entityMap[n] = e
  BY DEF InPool
<1>3. Shapes'
  BY <1>1 DEF PoolInv, Shapes
<1>4. PoolEntriesLive'
  BY <1>1 DEF PoolEntriesLive, Exists
<1>5. NoOrphan'
  <2> SUFFICES ASSUME NEW e \in Addresses, Alive(e)', e \notin loose
               PROVE  FALSE
    BY <1>1 DEF NoOrphan
  <2>1. e \notin InPool /\ Alive(e)
    BY <1>1 DEF Alive
  <2>2. entityMap[entity[e].name] = e /\ entity[e].name \in Names /\ e # Null
    BY <2>1, PoolAssumption DEF PoolInv, NoOrphan, Shapes, Entity, Alive
  <2> QED
    BY <2>1, <2>2 DEF InPool, Exists
<1>6. LooseIsOut'
  BY <1>1, <1>2, PoolAssumption DEF PoolInv, Shapes, LooseIsOut, Alive, Exists
<1>7. OwedDangles'
  BY <1>1 DEF OwedDangles
<1> QED
  BY <1>3, <1>4, <1>5, <1>6, <1>7 DEF PoolInv

\* The signals of an entity change.
LEMMA StepSignals ==
  ASSUME PoolInv, NEW e \in Addresses, NEW s, Alive(e),
         entity' = [entity EXCEPT ![e] = [@ EXCEPT !.signals = s]],
         UNCHANGED <<entityMap, loose, owed>>
  PROVE  PoolInv'
<1> DEFINE y == [entity[e] EXCEPT !.signals = s]
<1>1. Entity(y) /\ y # Dead /\ y.name = entity[e].name
  BY SignalsChanged DEF PoolInv, Shapes, Alive
<1>2. entity' = [entity EXCEPT ![e] = y]
  OBVIOUS
<1> HIDE DEF y
<1>3. Shapes'
  BY <1>1, <1>2 DEF PoolInv, Shapes
<1>4. \A a \in Addresses : (Alive(a)' <=> Alive(a)) /\ (Alive(a) => entity'[a].name = entity[a].name)
  BY <1>1, <1>2 DEF PoolInv, Shapes, Alive
<1>5. PoolEntriesLive'
  BY <1>4 DEF PoolInv, Shapes, PoolEntriesLive, Exists
<1>6. NoOrphan'
  BY <1>4 DEF PoolInv, NoOrphan
<1>7. LooseIsOut'
  BY <1>4 DEF PoolInv, Shapes, LooseIsOut
<1>8. OwedDangles'
  BY <1>4 DEF PoolInv, Shapes, OwedDangles, Exists
<1> QED
  BY <1>3, <1>5, <1>6, <1>7, <1>8 DEF PoolInv

LEMMA NextPool == PoolInv /\ [Next]_vars => PoolInv'
<1> SUFFICES ASSUME PoolInv, [Next]_vars PROVE PoolInv'
  OBVIOUS
<1>1. CASE UNCHANGED vars
  BY <1>1, StepElsewhere DEF vars
<1>2. ASSUME NEW c \in Classes, LoadPlugin(c) \/ UnloadPlugin(c) PROVE PoolInv'
  BY <1>2, StepElsewhere DEF LoadPlugin, UnloadPlugin
<1>3. ASSUME NEW c \in Classes, ClearPlugin(c) PROVE PoolInv'
  BY <1>3, StepClearPlugin
<1>4. ASSUME NEW c \in Classes, NEW n \in Names, NEW e \in Addresses, NewEntity(c, n, e)
      PROVE  PoolInv'
  BY <1>4, StepNewEntity
<1>5. ASSUME NEW c \in Classes, NEW n \in Names, NEW e \in Addresses,
             ConstructorThrows(c, n, e)
      PROVE  PoolInv'
  BY <1>5, StepConstructorThrows
<1>6. ASSUME NEW n \in Names, Deregister(n) PROVE PoolInv'
  BY <1>6, StepDeregister
<1>7. ASSUME NEW e \in Addresses, Delete(e) PROVE PoolInv'
  BY <1>7, StepDelete
<1>8. ASSUME NEW e \in Addresses, RegisterSignals(e) PROVE PoolInv'
  BY <1>8, StepSignals DEF RegisterSignals
<1>9. ASSUME NEW e \in Addresses, NEW name \in Range(SignalName), DeregisterSignal(e, name)
      PROVE  PoolInv'
  <2> DEFINE s == [entity[e].signals EXCEPT ![name] = 0]
  <2>1. entity' = [entity EXCEPT ![e] = [@ EXCEPT !.signals = s]]
    BY <1>9 DEF DeregisterSignal
  <2> QED
    BY <1>9, <2>1, StepSignals DEF DeregisterSignal
<1>10. ASSUME NEW s \in Signals, PutSignal(s) PROVE PoolInv'
  BY <1>10, StepElsewhere DEF PutSignal
<1>11. CASE PassArray \/ DestroyFactory
  BY <1>11, StepElsewhere DEF PassArray, DestroyFactory
<1>12. CASE DestroyPool
  BY <1>12, StepDestroyPool
<1> QED
  BY <1>1, <1>2, <1>3, <1>4, <1>5, <1>6, <1>7, <1>8, <1>9, <1>10, <1>11, <1>12 DEF Next

THEOREM PoolCorrect == Spec => []PoolInv
BY InitPool, NextPool, PTL DEF Spec

\* But for the names that the caller knows to dangle, what the pool returns is
\* alive and has the name it was asked for, though destructors do not deregister
\* and addresses are used again.
THEOREM PoolLive == Spec => []PoolEntriesLive
<1>1. PoolInv => PoolEntriesLive
  BY DEF PoolInv
<1> QED
  BY <1>1, PoolCorrect, PTL

\* No entity is lost: the pool will delete it, or the caller has it.
THEOREM NoneLost == Spec => []NoOrphan
<1>1. PoolInv => NoOrphan
  BY DEF PoolInv
<1> QED
  BY <1>1, PoolCorrect, PTL

(***************************************************************************)
(* Arrays.                                                                 *)
(***************************************************************************)

\* An array has a cell for each unit of its size, and holds a sequence.
Arrays ==
  [cells : Seq(Signals \cup {0}), size : Nat, rank : Nat]

Holding(a, ss) ==
  /\ a \in Arrays /\ ss \in Seq(Signals)
  /\ a.size = Len(a.cells) /\ a.rank <= a.size /\ a.rank = Len(ss)
  /\ \A i \in 1 .. a.rank : a.cells[i] = ss[i]

LEMMA HoldingGrows ==
  ASSUME NEW a, NEW ss, NEW n \in Nat, Holding(a, ss)
  PROVE  /\ Holding(Grow(a, n), ss)
         /\ Grow(a, n).size = a.size + n /\ Grow(a, n).rank = a.rank
<1> DEFINE new == [i \in 1 .. n |-> 0]
           b == Grow(a, n)
<1>1. new \in Seq(Signals \cup {0}) /\ Len(new) = n
  OBVIOUS
<1>2. a.cells \in Seq(Signals \cup {0}) /\ a.size \in Nat /\ a.rank \in Nat
  BY DEF Holding, Arrays
<1>3. b = [a EXCEPT !.size = a.size + n, !.cells = a.cells \o new]
  BY DEF Grow
<1> HIDE DEF new, b
<1>4. /\ a.cells \o new \in Seq(Signals \cup {0})
      /\ Len(a.cells \o new) = Len(a.cells) + n
      /\ \A i \in 1 .. Len(a.cells) : (a.cells \o new)[i] = a.cells[i]
  <2>1. /\ a.cells \o new \in Seq(Signals \cup {0})
        /\ Len(a.cells \o new) = Len(a.cells) + Len(new)
        /\ \A i \in 1 .. Len(a.cells) + Len(new) :
             (a.cells \o new)[i] = IF i <= Len(a.cells) THEN a.cells[i]
                                   ELSE new[i - Len(a.cells)]
    BY <1>1, <1>2, ConcatProperties, Zenon
  <2>2. Len(a.cells) \in Nat
    BY <1>2
  <2> QED
    BY <1>1, <2>1, <2>2
<1>5. b \in Arrays /\ b.cells = a.cells \o new /\ b.size = a.size + n /\ b.rank = a.rank
  <2> DEFINE S == Seq(Signals \cup {0})
             cs == a.cells \o new
             k == a.size + n
  <2>1. /\ a \in [cells : S, size : Nat, rank : Nat] /\ k \in Nat /\ cs \in S
        /\ b = [a EXCEPT !.size = k, !.cells = cs]
    BY <1>2, <1>3, <1>4 DEF Holding, Arrays
  <2> HIDE DEF S, cs, k
  <2>2. b \in [cells : S, size : Nat, rank : Nat] /\ b.cells = cs /\ b.size = k /\ b.rank = a.rank
    BY <2>1
  <2> QED
    BY <2>2 DEF Arrays, S, cs, k
<1>6. Holding(b, ss)
  BY <1>2, <1>4, <1>5 DEF Holding
<1> QED
  BY <1>5, <1>6 DEF b

LEMMA HoldingAdds ==
  ASSUME NEW a, NEW ss, NEW s \in Signals, Holding(a, ss)
  PROVE  Holding(AddElmt(a, s), Append(ss, s))
<1> DEFINE room == IF a.rank >= a.size THEN Grow(a, DEFAULT_SIZE) ELSE a
           b == AddElmt(a, s)
<1>1. Holding(room, ss) /\ room.rank < room.size
  BY HoldingGrows, PoolAssumption DEF Holding, Arrays
<1>2. b = [room EXCEPT !.cells[room.rank + 1] = s, !.rank = room.rank + 1]
  BY HoldingGrows, PoolAssumption DEF AddElmt
<1> HIDE DEF room, b
<1>3. /\ room.cells \in Seq(Signals \cup {0}) /\ room.rank \in Nat
      /\ room.rank + 1 \in 1 .. Len(room.cells)
  BY <1>1 DEF Holding, Arrays
<1>4. /\ b.cells = [room.cells EXCEPT ![room.rank + 1] = s]
      /\ b.size = room.size /\ b.rank = room.rank + 1
      /\ b = [cells |-> b.cells, size |-> b.size, rank |-> b.rank]
  BY <1>1, <1>2 DEF Holding, Arrays
<1>5. b.cells \in Seq(Signals \cup {0}) /\ Len(b.cells) = Len(room.cells)
  BY <1>3, <1>4
<1>6. Append(ss, s) \in Seq(Signals) /\ Len(Append(ss, s)) = Len(ss) + 1
  BY DEF Holding
<1>7. \A i \in 1 .. b.rank : b.cells[i] = Append(ss, s)[i]
  BY <1>1, <1>3, <1>4 DEF Holding
<1>8. b \in Arrays
  <2> DEFINE S == Seq(Signals \cup {0})
  <2>1. room \in [cells : S, size : Nat, rank : Nat] /\ b.cells \in S
    BY <1>1, <1>5 DEF Holding, Arrays
  <2> HIDE DEF S
  <2>2. b.size \in Nat /\ b.rank \in Nat
    BY <1>3, <1>4, <2>1
  <2>3. b = [cells |-> b.cells, size |-> b.size, rank |-> b.rank]
    BY <1>4
  <2>4. \A x \in S, y \in Nat, z \in Nat :
          [cells |-> x, size |-> y, rank |-> z] \in [cells : S, size : Nat, rank : Nat]
    OBVIOUS
  <2> HIDE DEF b
  <2>5. b \in [cells : S, size : Nat, rank : Nat]
    BY <2>1, <2>2, <2>3, <2>4, Zenon
  <2> QED
    BY <2>5 DEF Arrays, S
<1>9. Holding(b, Append(ss, s))
  BY <1>1, <1>3, <1>4, <1>5, <1>6, <1>7, <1>8 DEF Holding
<1> QED
  BY <1>9 DEF b

LEMMA HoldingCopies ==
  ASSUME NEW a, NEW ss, Holding(a, ss)
  PROVE  Holding(CopyArray(a), ss)
BY DEF Holding, Arrays, CopyArray

ArrayInv == Holding(array, appended)

LEMMA InitArray == Init => ArrayInv
BY DEF Init, NoArray, ArrayInv, Holding, Arrays

LEMMA NextArray == ArrayInv /\ [Next]_vars => ArrayInv'
<1> SUFFICES ASSUME ArrayInv, [Next]_vars PROVE ArrayInv'
  OBVIOUS
<1>1. CASE UNCHANGED <<array, appended>>
  BY <1>1 DEF ArrayInv
<1>2. ASSUME NEW s \in Signals, PutSignal(s) PROVE ArrayInv'
  <2>1. Holding(NoArray, <<>>)
    BY DEF NoArray, Holding, Arrays
  <2>2. Holding(Grow(NoArray, DEFAULT_SIZE), <<>>)
    BY <2>1, HoldingGrows, PoolAssumption
  <2>3. Holding(NewArray(s), Append(<<>>, s))
    BY <2>2, HoldingAdds DEF NewArray
  <2>4. CASE array = NoArray
    <3>1. appended = <<>>
      BY <2>4 DEF ArrayInv, Holding, NoArray
    <3> QED
      BY <1>2, <2>3, <2>4, <3>1 DEF PutSignal, ArrayInv
  <2>5. CASE array # NoArray
    BY <1>2, <2>5, HoldingAdds DEF PutSignal, ArrayInv
  <2> QED
    BY <2>4, <2>5
<1>3. CASE PassArray
  BY <1>3, HoldingCopies DEF PassArray, ArrayInv
<1>4. ASSUME NEW e \in Addresses, RegisterSignals(e) PROVE ArrayInv'
  BY <1>4 DEF RegisterSignals, NoArray, ArrayInv, Holding, Arrays
<1>5. ASSUME NEW c \in Classes, LoadPlugin(c) \/ UnloadPlugin(c) \/ ClearPlugin(c)
      PROVE  UNCHANGED <<array, appended>>
  BY <1>5 DEF LoadPlugin, UnloadPlugin, ClearPlugin
<1>6. ASSUME NEW c \in Classes, NEW n \in Names, NEW e \in Addresses,
             NewEntity(c, n, e) \/ ConstructorThrows(c, n, e)
      PROVE  UNCHANGED <<array, appended>>
  BY <1>6 DEF NewEntity, ConstructorThrows
<1>7. ASSUME NEW n \in Names, Deregister(n) PROVE UNCHANGED <<array, appended>>
  BY <1>7 DEF Deregister
<1>8. ASSUME NEW e \in Addresses, Delete(e) PROVE UNCHANGED <<array, appended>>
  BY <1>8 DEF Delete
<1>9. ASSUME NEW e \in Addresses, NEW name \in Range(SignalName), DeregisterSignal(e, name)
      PROVE  UNCHANGED <<array, appended>>
  BY <1>9 DEF DeregisterSignal
<1>10. CASE DestroyPool \/ DestroyFactory
  BY <1>10, <1>1 DEF DestroyPool, DestroyFactory
<1>11. CASE UNCHANGED vars
  BY <1>11, <1>1 DEF vars
<1> QED
  BY <1>1, <1>2, <1>3, <1>4, <1>5, <1>6, <1>7, <1>8, <1>9, <1>10, <1>11 DEF Next

\* However it grew and was copied, an array holds the signals put in it, in order,
\* and never writes past the cells it has.
THEOREM ArraysWhole == Spec => []ArrayWhole
<1>1. ArrayInv => ArrayWhole
  <2> SUFFICES ASSUME ArrayInv PROVE ArrayWhole
    OBVIOUS
  <2> DEFINE held == SubSeq(array.cells, 1, array.rank)
  <2>1. /\ array.cells \in Seq(Signals \cup {0}) /\ array.rank \in Nat
        /\ array.rank <= Len(array.cells)
    BY DEF ArrayInv, Holding, Arrays
  <2>2. Len(held) = array.rank /\ \A i \in 1 .. array.rank : held[i] = array.cells[i]
    BY <2>1
  <2>3. held \in Seq(Signals \cup {0})
    BY <2>1
  <2> HIDE DEF held
  <2>4. held = appended
    BY <2>2, <2>3 DEF ArrayInv, Holding
  <2> QED
    BY <2>4 DEF ArrayInv, Holding, ArrayWhole, held
<1> QED
  BY <1>1, InitArray, NextArray, PTL DEF Spec

(***************************************************************************)
(* The signals of an entity.                                               *)
(***************************************************************************)

Registries == [Range(SignalName) -> Signals \cup {0}]

\* What one turn of the loop of signalRegistration() makes of what it has.
Turns == [throws : BOOLEAN, signals : Registries]
Turn(acc, s) == IF acc.throws THEN acc ELSE AddSignal(acc.signals, s)

\* What is registered in r is registered in q, under the same name.
Keeps(r, q) == \A name \in Range(SignalName) : r[name] # 0 => q[name] = r[name]

LEMMA TurnKeeps ==
  ASSUME NEW acc \in Turns, NEW s \in Signals
  PROVE  Turn(acc, s) \in Turns /\ Keeps(acc.signals, Turn(acc, s).signals)
<1> DEFINE name == SignalName[s]
           r == acc.signals
           q == [r EXCEPT ![name] = s]
<1>1. r \in Registries /\ name \in Range(SignalName) /\ acc.throws \in BOOLEAN
  BY DEF Turns, Signals, Range
<1>2. q \in Registries
  BY <1>1 DEF Registries
<1>3. ASSUME NEW x \in Registries,
             \/ Turn(acc, s) = [throws |-> FALSE, signals |-> x]
             \/ Turn(acc, s) = [throws |-> TRUE, signals |-> x]
      PROVE  Turn(acc, s) \in Turns /\ Turn(acc, s).signals = x
  <2>1. [throws |-> FALSE, signals |-> x] \in Turns /\ [throws |-> TRUE, signals |-> x] \in Turns
    BY DEF Turns
  <2>2. /\ [throws |-> FALSE, signals |-> x].signals = x
        /\ [throws |-> TRUE, signals |-> x].signals = x
    OBVIOUS
  <2> QED  BY <1>3, <2>1, <2>2, Zenon
<1>4. CASE acc.throws
  BY <1>4 DEF Turn, Keeps
<1>5. CASE ~acc.throws /\ r[name] \in {0, s}
  <2>1. Turn(acc, s) = [throws |-> FALSE, signals |-> q]
    BY <1>5 DEF Turn, AddSignal
  <2>2. Keeps(r, q)
    BY <1>1, <1>5 DEF Keeps, Registries
  <2>3. Turn(acc, s) \in Turns /\ Turn(acc, s).signals = q
    BY <1>2, <1>3, <2>1, Zenon
  <2> QED  BY <2>2, <2>3, Zenon
<1>6. CASE ~acc.throws /\ r[name] \notin {0, s}
  <2>1. Turn(acc, s) = [throws |-> TRUE, signals |-> r]
    BY <1>6 DEF Turn, AddSignal
  <2>2. Keeps(r, r)
    BY DEF Keeps
  <2>3. Turn(acc, s) \in Turns /\ Turn(acc, s).signals = r
    BY <1>1, <1>3, <2>1, Zenon
  <2> QED  BY <2>2, <2>3, Zenon
<1> QED  BY <1>4, <1>5, <1>6

\* The loop, whatever the number of signals in the array.
LEMMA LoopKeeps ==
  ASSUME NEW ss \in Seq(Signals), NEW base \in Turns
  PROVE  LET end == FoldLeft(LAMBDA acc, s : IF acc.throws THEN acc ELSE AddSignal(acc.signals, s),
                             base, ss)
         IN  end \in Turns /\ Keeps(base.signals, end.signals)
<1> DEFINE n == Len(ss)
           Solves(f) == f = [R \in SUBSET DOMAIN ss |->
                               IF R = {} THEN base
                               ELSE LET x == Max(R)
                                    IN  IF f[R \ {x}].throws THEN f[R \ {x}]
                                        ELSE AddSignal(f[R \ {x}].signals, ss[x])]
           it == CHOOSE f : Solves(f)
           end == FoldLeft(LAMBDA acc, s : IF acc.throws THEN acc ELSE AddSignal(acc.signals, s),
                           base, ss)
<1>1. end = it[DOMAIN ss]
  BY Zenon DEF FoldLeft, MapThenFoldSet
<1>2. n \in Nat /\ DOMAIN ss = 1 .. n /\ \A k \in 1 .. n : ss[k] \in Signals
  OBVIOUS
<1>3. \E f : Solves(f)
  <2> DEFINE G == [p \in Turns \X (1 .. n) |-> Turn(p[1], ss[p[2]])]
  <2>1. G \in [Turns \X (1 .. n) -> Turns]
    BY <1>2, TurnKeeps
  <2>2. \A acc \in Turns, k \in 1 .. n : G[<<acc, k>>] = Turn(acc, ss[k])
    OBVIOUS
  <2> HIDE DEF G, n
  <2>3. PICK f : Folded(f, Turns, G, base, n)
    BY <1>2, <2>1, Folds
  <2>4. ASSUME NEW R \in SUBSET (1 .. n), R # {}
        PROVE  f[R] = Turn(f[R \ {Max(R)}], ss[Max(R)])
    <3>1. Max(R) \in 1 .. n
      BY <1>2, <2>4, MaxOf
    <3>2. f[R \ {Max(R)}] \in Turns
      BY <2>3 DEF Folded
    <3>3. f[R] = G[<<f[R \ {Max(R)}], Max(R)>>]
      BY <2>3, <2>4 DEF Folded
    <3> QED  BY <2>2, <3>1, <3>2, <3>3
  <2>5. f = [R \in SUBSET (1 .. n) |-> f[R]] /\ f[{}] = base
    BY <2>3 DEF Folded
  <2>6. Solves(f)
    BY <1>2, <2>4, <2>5 DEF Turn
  <2> QED  BY <2>6
<1>4. Solves(it)
  BY <1>3
<1> DEFINE S == {k \in 0 .. n : it[1 .. k] \in Turns /\ Keeps(base.signals, it[1 .. k].signals)}
<1> HIDE DEF it, n
<1>5. it[{}] = base
  BY <1>4
<1>6. 0 \in S
  BY <1>2, <1>5 DEF Keeps
<1>7. ASSUME NEW k \in 0 .. n, k # n, k \in S
      PROVE  k + 1 \in S
  <2>1. k + 1 \in 1 .. n /\ k + 1 \in 0 .. n /\ k + 1 \in Nat /\ k + 1 # 0 /\ k + 1 - 1 = k
    BY <1>2, <1>7
  <2>2. /\ 1 .. k + 1 # {} /\ Max(1 .. k + 1) = k + 1
        /\ (1 .. k + 1) \ {k + 1} = 1 .. k
    BY <2>1, Prefix
  <2>3. 1 .. k + 1 \in SUBSET DOMAIN ss
    BY <1>2, <2>1
  <2>4. it[1 .. k + 1] = Turn(it[1 .. k], ss[k + 1])
    BY <1>4, <2>2, <2>3 DEF Turn
  <2>5. it[1 .. k] \in Turns /\ Keeps(base.signals, it[1 .. k].signals)
    BY <1>7
  <2>6. /\ it[1 .. k + 1] \in Turns
        /\ Keeps(it[1 .. k].signals, it[1 .. k + 1].signals)
    BY <1>2, <2>1, <2>4, <2>5, TurnKeeps
  <2> QED  BY <2>1, <2>5, <2>6 DEF Keeps
<1> HIDE DEF S
<1>8. n \in S
  BY <1>2, <1>6, <1>7, UpTo
<1> QED  BY <1>1, <1>2, <1>8 DEF S

\* Every entity is one of its class, and its signals are some of its own.
WholeEntities ==
  \A e \in Addresses :
    Alive(e) => entity[e] \in [name : Names, class : Classes, signals : Registries]

EntityInv == PoolInv /\ ArrayInv /\ WholeEntities /\ classes \subseteq Classes

\* What signalRegistration() does to an entity of the pool.
LEMMA RegisteredKeeps ==
  ASSUME EntityInv, NEW e \in Addresses, Alive(e)
  PROVE  /\ Registered(e).signals \in Registries
         /\ Keeps(entity[e].signals, Registered(e).signals)
<1> DEFINE ss == SubSeq(array.cells, 1, array.rank)
           base == [throws |-> FALSE, signals |-> entity[e].signals]
<1>1. ss \in Seq(Signals)
  BY DEF EntityInv, ArrayInv, Holding, Arrays
<1>2. base \in Turns
  BY DEF EntityInv, WholeEntities, Turns
<1>3. Registered(e) = FoldLeft(LAMBDA acc, s : IF acc.throws THEN acc ELSE AddSignal(acc.signals, s),
                               base, ss)
  BY Zenon DEF Registered
<1> HIDE DEF ss
<1>4. Registered(e) \in Turns /\ Keeps(base.signals, Registered(e).signals)
  <2> HIDE DEF base
  <2> QED  BY <1>1, <1>2, <1>3, LoopKeeps
<1> QED  BY <1>4 DEF Turns

LEMMA InitEntities == Init => EntityInv
<1> SUFFICES ASSUME Init PROVE EntityInv
  OBVIOUS
<1>1. WholeEntities /\ classes \subseteq Classes
  BY DEF Init, WholeEntities, Alive
<1> QED  BY <1>1, InitPool, InitArray DEF EntityInv

\* An entity whose signals are replaced by others stays one.
LEMMA SignalsReplaced ==
  ASSUME EntityInv, NEW e \in Addresses, NEW r \in Registries, Alive(e),
         entity' = [entity EXCEPT ![e].signals = r]
  PROVE  /\ WholeEntities'
         /\ \A a \in Addresses : a # e => entity'[a] = entity[a]
         /\ entity'[e].signals = r
<1> DEFINE E == [name : Names, class : Classes, signals : Registries]
           x == entity[e]
           y == [x EXCEPT !.signals = r]
<1>1. x \in E
  BY DEF EntityInv, WholeEntities
<1>2. entity' = [entity EXCEPT ![e] = y]
  OBVIOUS
<1>3. y \in E /\ y.signals = r
  <2> HIDE DEF x
  <2> QED  BY <1>1
<1> HIDE DEF x, y
<1>4. /\ entity'[e] = y
      /\ \A a \in Addresses : a # e => entity'[a] = entity[a]
  BY <1>2 DEF EntityInv, PoolInv, Shapes
<1>5. WholeEntities'
  BY <1>3, <1>4 DEF EntityInv, WholeEntities, Alive
<1> QED  BY <1>3, <1>4, <1>5

LEMMA NextEntities ==
  EntityInv /\ [Next]_vars => EntityInv'
<1> SUFFICES ASSUME EntityInv, [Next]_vars PROVE WholeEntities' /\ (classes \subseteq Classes)'
  BY NextPool, NextArray DEF EntityInv
<1> USE DEF EntityInv
<1>1. ASSUME UNCHANGED entity PROVE WholeEntities'
  BY <1>1 DEF WholeEntities, Alive
<1>2. ASSUME NEW E, DeleteAll(E) PROVE WholeEntities'
  BY <1>2 DEF DeleteAll, WholeEntities, Alive
<1>3. CASE UNCHANGED vars
  BY <1>1, <1>3 DEF vars
<1>4. ASSUME NEW c \in Classes, LoadPlugin(c) \/ UnloadPlugin(c) \/ ClearPlugin(c)
      PROVE  WholeEntities' /\ (classes \subseteq Classes)'
  BY <1>1, <1>2, <1>4 DEF LoadPlugin, UnloadPlugin, ClearPlugin
<1>5. ASSUME NEW c \in Classes, NEW n \in Names, NEW e \in Addresses, NewEntity(c, n, e)
      PROVE  WholeEntities' /\ (classes \subseteq Classes)'
  <2> DEFINE x == [name |-> n, class |-> c, signals |-> NoSignals]
  <2>1. NoSignals \in Registries
    BY DEF NoSignals, Registries
  <2>2. x \in [name : Names, class : Classes, signals : Registries]
    BY <2>1
  <2>3. entity' = [entity EXCEPT ![e] = x] /\ UNCHANGED classes
    BY <1>5 DEF NewEntity
  <2> HIDE DEF x
  <2> QED  BY <2>2, <2>3 DEF WholeEntities, Alive, PoolInv, Shapes
<1>6. ASSUME NEW c \in Classes, NEW n \in Names, NEW e \in Addresses,
             ConstructorThrows(c, n, e)
      PROVE  WholeEntities' /\ (classes \subseteq Classes)'
  BY <1>1, <1>6 DEF ConstructorThrows
<1>7. ASSUME NEW n \in Names, Deregister(n)
      PROVE  WholeEntities' /\ (classes \subseteq Classes)'
  BY <1>1, <1>7 DEF Deregister
<1>8. ASSUME NEW e \in Addresses, Delete(e)
      PROVE  WholeEntities' /\ (classes \subseteq Classes)'
  BY <1>2, <1>8 DEF Delete
<1>9. ASSUME NEW e \in Addresses, RegisterSignals(e)
      PROVE  WholeEntities' /\ (classes \subseteq Classes)'
  BY <1>9, RegisteredKeeps, SignalsReplaced DEF RegisterSignals
<1>10. ASSUME NEW e \in Addresses, NEW name \in Range(SignalName), DeregisterSignal(e, name)
      PROVE  WholeEntities' /\ (classes \subseteq Classes)'
  <2> DEFINE r == [entity[e].signals EXCEPT ![name] = 0]
  <2>1. r \in Registries
    BY <1>10 DEF DeregisterSignal, WholeEntities, Registries
  <2>2. entity' = [entity EXCEPT ![e].signals = r]
    BY <1>10 DEF DeregisterSignal
  <2> QED  BY <1>10, <2>1, <2>2, SignalsReplaced DEF DeregisterSignal
<1>11. ASSUME NEW s \in Signals, PutSignal(s)
      PROVE  WholeEntities' /\ (classes \subseteq Classes)'
  BY <1>1, <1>11 DEF PutSignal
<1>12. CASE PassArray \/ DestroyFactory
  BY <1>1, <1>12 DEF PassArray, DestroyFactory
<1>13. CASE DestroyPool
  BY <1>2, <1>13 DEF DestroyPool
<1> QED
  BY <1>3, <1>4, <1>5, <1>6, <1>7, <1>8, <1>9, <1>10, <1>11, <1>12, <1>13 DEF Next, vars

\* Every name of a class, of an entity and of a signal leads to one of its kind:
\* signalRegistration() leaves none but signals of the entity registered.
THEOREM TypeCorrect == Spec => []TypeOK
<1>1. EntityInv => TypeOK
  BY DEF EntityInv, PoolInv, Shapes, WholeEntities, Registries, TypeOK
<1> QED
  BY <1>1, InitEntities, NextEntities, PTL DEF Spec

(***************************************************************************)
(* What a full name means.                                                 *)
(***************************************************************************)

MeaningKept ==
  \A n \in Names \ (owed \cup owed'), name \in Range(SignalName) :
    LET was == getSignal(n, name)
    IN  was # <<Null, 0>> => getSignal(n, name)' \in {was, <<Null, 0>>}

\* A name that meant a signal led to a live entity; a step that leaves that
\* entity under the name, and its signal, leaves the meaning.
LEMMA MeaningHeld ==
  ASSUME EntityInv, NEW n \in Names \ owed, NEW name \in Range(SignalName),
         getSignal(n, name) # <<Null, 0>>
  PROVE  /\ Exists(n) /\ entityMap[n] \in Addresses /\ Alive(entityMap[n])
         /\ entity[entityMap[n]].signals[name] # 0
         /\ entityMap'[n] = Null => getSignal(n, name)' = <<Null, 0>>
         /\ entityMap'[n] = entityMap[n] =>
              /\ entity'[entityMap[n]].signals[name] = 0 => getSignal(n, name)' = <<Null, 0>>
              /\ entity'[entityMap[n]].signals[name] = entity[entityMap[n]].signals[name]
                   => getSignal(n, name)' = getSignal(n, name)
<1>1. Exists(n) /\ entity[entityMap[n]].signals[name] # 0
  BY DEF getSignal, getEntity, signalOf, Exists
<1>2. entityMap[n] \in Addresses /\ Alive(entityMap[n])
  BY <1>1 DEF EntityInv, PoolInv, Shapes, PoolEntriesLive, Exists
<1> QED  BY <1>1, <1>2 DEF getSignal, getEntity, signalOf, Exists

LEMMA StepMeaning ==
  EntityInv /\ [Next]_vars => [MeaningKept]_vars
<1> SUFFICES ASSUME EntityInv, Next,
                    NEW n \in Names \ (owed \cup owed'), NEW name \in Range(SignalName),
                    getSignal(n, name) # <<Null, 0>>
             PROVE  getSignal(n, name)' \in {getSignal(n, name), <<Null, 0>>}
  BY DEF MeaningKept
<1> DEFINE a == entityMap[n]
           Held == \/ entityMap'[n] = Null
                   \/ /\ entityMap'[n] = a
                      /\ entity'[a].signals[name] \in {0, entity[a].signals[name]}
<1>1. Exists(n) /\ a \in Addresses /\ Alive(a) /\ entity[a].signals[name] # 0
  BY MeaningHeld
<1>2. SUFFICES Held
  BY MeaningHeld
<1>3. ASSUME NEW c \in Classes, LoadPlugin(c) \/ UnloadPlugin(c) PROVE Held
  BY <1>3 DEF LoadPlugin, UnloadPlugin
<1>4. ASSUME NEW c \in Classes, ClearPlugin(c) PROVE Held
  <2>1. a \notin OfClass(c)
    BY <1>1, <1>4 DEF ClearPlugin, OfClass
  <2> QED  BY <1>1, <1>4, <2>1 DEF ClearPlugin, DeleteAll
<1>5. ASSUME NEW c \in Classes, NEW m \in Names, NEW e \in Addresses, NewEntity(c, m, e)
      PROVE  Held
  <2>1. m # n /\ e # a
    BY <1>1, <1>5 DEF NewEntity, Construct, Register
  <2> QED  BY <1>1, <1>5, <2>1 DEF NewEntity, Construct, Register, EntityInv, PoolInv, Shapes
<1>6. ASSUME NEW c \in Classes, NEW m \in Names, NEW e \in Addresses,
             ConstructorThrows(c, m, e)
      PROVE  Held
  <2>1. m # n
    BY <1>1, <1>6 DEF ConstructorThrows, Construct, Register
  <2> QED
    BY <1>6, <2>1 DEF ConstructorThrows, Construct, Register, EntityInv, PoolInv, Shapes
<1>7. ASSUME NEW m \in Names, Deregister(m) PROVE Held
  BY <1>7 DEF Deregister, EntityInv, PoolInv, Shapes
<1>8. ASSUME NEW e \in Addresses, Delete(e) PROVE Held
  <2>1. e # a
    BY <1>8 DEF Delete
  <2> QED  BY <1>1, <1>8, <2>1 DEF Delete, DeleteAll
<1>9. ASSUME NEW e \in Addresses, RegisterSignals(e) PROVE Held
  <2> DEFINE r == Registered(e).signals
  <2>1. /\ Alive(e) /\ entity' = [entity EXCEPT ![e].signals = r]
        /\ UNCHANGED entityMap
    BY <1>9 DEF RegisterSignals
  <2>2. r \in Registries /\ Keeps(entity[e].signals, r)
    BY <2>1, RegisteredKeeps
  <2> HIDE DEF r
  <2>3. (\A b \in Addresses : b # e => entity'[b] = entity[b]) /\ entity'[e].signals = r
    BY ONLY <2>1, <2>2, EntityInv, SignalsReplaced
  <2>4. (a # e => entity'[a] = entity[a]) /\ entity'[e].signals = r
    BY <1>1, <2>3
  <2> QED  BY <1>1, <2>1, <2>2, <2>4 DEF Keeps
<1>10. ASSUME NEW e \in Addresses, NEW other \in Range(SignalName), DeregisterSignal(e, other)
       PROVE  Held
  <2> DEFINE r == [entity[e].signals EXCEPT ![other] = 0]
  <2>1. Alive(e) /\ entity' = [entity EXCEPT ![e].signals = r] /\ UNCHANGED entityMap
    BY <1>10 DEF DeregisterSignal
  <2>2. entity[e].signals \in Registries
    BY <2>1 DEF EntityInv, WholeEntities
  <2>3. r \in Registries /\ r[name] \in {0, entity[e].signals[name]}
    BY <2>2 DEF Registries
  <2> HIDE DEF r
  <2>4. (\A b \in Addresses : b # e => entity'[b] = entity[b]) /\ entity'[e].signals = r
    BY ONLY <2>1, <2>3, EntityInv, SignalsReplaced
  <2>5. (a # e => entity'[a] = entity[a]) /\ entity'[e].signals = r
    BY <1>1, <2>4
  <2> QED  BY <2>1, <2>3, <2>5
<1>11. ASSUME NEW s \in Signals, PutSignal(s) PROVE Held
  BY <1>11 DEF PutSignal
<1>12. CASE PassArray \/ DestroyFactory
  BY <1>12 DEF PassArray, DestroyFactory
<1>13. CASE DestroyPool
  BY <1>13 DEF DestroyPool
<1> QED
  BY <1>3, <1>4, <1>5, <1>6, <1>7, <1>8, <1>9, <1>10, <1>11, <1>12, <1>13 DEF Next

\* "entity.signal" goes on meaning the signal it meant until that is deregistered,
\* whatever is made, deleted and registered meanwhile, however many signals an
\* array holds, though a conflict in the middle of it leaves it half registered.
THEOREM MeaningsKept == Spec => RegistrationsKept
<1>1. EntityInv /\ [Next]_vars => [MeaningKept]_vars
  BY StepMeaning
<1> QED
  BY <1>1, InitEntities, NextEntities, PTL DEF Spec, RegistrationsKept, MeaningKept
=============================================================================
