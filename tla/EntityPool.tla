----------------------------- MODULE EntityPool -----------------------------
(***************************************************************************)
(* The entities of a graph: the factory that makes them from the name of   *)
(* their class, the pool that finds them by their own name, and the        *)
(* signals each has registered.  Both registries are singletons; the pool  *)
(* holds bare pointers.  An entity enters the pool in its constructor and  *)
(* does not leave it in its destructor: that is left to the caller.        *)
(*                                                                         *)
(* An entity is an address; a new one may get the address of a deleted     *)
(* one.  Its signals are members of it, numbered; two of them may have     *)
(* the same name, which is what follows the last colon of the full name.   *)
(* One thread makes the calls; a call that throws without having changed   *)
(* anything is not shown.                                                  *)
(***************************************************************************)
EXTENDS Integers, FiniteSets, SequencesExt

CONSTANTS
  Addresses,      \* where entities may be
  Names,          \* names of entities, given or made up for an empty one
  Classes,        \* classes of entities; a plugin has one
  SignalName,     \* the names of the signals of an entity, as a sequence
  DEFAULT_SIZE,   \* by which a SignalArray grows
  MaxArray        \* bound: signals put in one array

Null == "NULL"
Signals == DOMAIN SignalName
NoSignals == [s \in Range(SignalName) |-> 0]
Dead == [name |-> Null, class |-> Null, signals |-> NoSignals]

ASSUME PoolAssumption ==
  /\ Null \notin Addresses \cup Names \cup Classes
  /\ DEFAULT_SIZE \in Nat \ {0} /\ MaxArray \in Nat

VARIABLES
  entity,      \* what is at each address
  entityMap,   \* of the pool
  classes,     \* entityMap of the factory
  array,       \* the SignalArray that the caller builds for an entity
  loose,       \* history: the entities that the caller took out of the pool
  owed,        \* history: names that the caller knows to dangle
  appended     \* history: the signals put in the array

vars == <<entity, entityMap, classes, array, loose, owed, appended>>

NoArray == [cells |-> <<>>, size |-> 0, rank |-> 0]

Init ==
  /\ entity = [e \in Addresses |-> Dead]
  /\ entityMap = [n \in Names |-> Null]
  /\ classes = {} /\ array = NoArray
  /\ loose = {} /\ owed = {} /\ appended = <<>>

Alive(e) == entity[e] # Dead
Exists(n) == entityMap[n] # Null       \* existEntity()

----------------------------------------------------------------------------
(* Classes come and go with the plugins that define them.                  *)

\* EntityRegisterer(): the factory throws when the class is known.
LoadPlugin(c) ==
  /\ c \notin classes
  /\ classes' = classes \cup {c}
  /\ UNCHANGED <<entity, entityMap, array, loose, owed, appended>>

\* ~EntityRegisterer(), whether or not there are entities of the class.
UnloadPlugin(c) ==
  /\ c \in classes
  /\ classes' = classes \ {c}
  /\ UNCHANGED <<entity, entityMap, array, loose, owed, appended>>

\* FactoryStorage::destroy().
DestroyFactory ==
  /\ classes # {}
  /\ classes' = {}
  /\ UNCHANGED <<entity, entityMap, array, loose, owed, appended>>

----------------------------------------------------------------------------
(* Entities.                                                               *)

\* PoolStorage::registerEntity() throws when the name is taken.
Register(n, e) ==
  /\ ~Exists(n)
  /\ entityMap' = [entityMap EXCEPT ![n] = e]

\* The constructor of Entity.
Construct(n, e) == ~Alive(e) /\ Register(n, e)

\* FactoryStorage::newEntity(c, n).
NewEntity(c, n, e) ==
  /\ c \in classes
  /\ Construct(n, e)
  /\ entity' = [entity EXCEPT ![e] = [name |-> n, class |-> c, signals |-> NoSignals]]
  /\ UNCHANGED <<classes, array, loose, owed, appended>>

\* The same when the constructor of the class, which runs after that of Entity,
\* throws: the entity is gone and its name is in the pool.  The caller knows.
ConstructorThrows(c, n, e) ==
  /\ c \in classes
  /\ Construct(n, e)
  /\ owed' = owed \cup {n}
  /\ UNCHANGED <<entity, classes, array, loose, appended>>

\* A name that is not there is erased.
MutantDeregister(n) ==
  /\ entityMap' = [entityMap EXCEPT ![n] = Null]
  /\ loose' = IF n \in owed THEN loose ELSE loose \cup {entityMap[n]}
  /\ owed' = owed \ {n}
  /\ UNCHANGED <<entity, classes, array, appended>>

\* deregisterEntity(n), which does not look at the entity.
Deregister(n) ==
  /\ Exists(n)
  /\ entityMap' = [entityMap EXCEPT ![n] = Null]
  /\ loose' = IF n \in owed THEN loose ELSE loose \cup {entityMap[n]}
  /\ owed' = owed \ {n}
  /\ UNCHANGED <<entity, classes, array, appended>>

\* ~Entity() on each entity of E: they stay in the pool.
DeleteAll(E) == entity' = [e \in Addresses |-> IF e \in E THEN Dead ELSE entity[e]]

\* The caller deletes an entity.  ~Entity() does not deregister it: a caller that has
\* not done so either leaves a name that leads to freed memory, and knows it.
Delete(e) ==
  /\ Alive(e)
  /\ DeleteAll({e})
  /\ loose' = loose \ {e}
  /\ owed' = owed \cup {n \in Names : entityMap[n] = e}
  /\ UNCHANGED <<entityMap, classes, array, appended>>

InPool == {entityMap[n] : n \in {m \in Names : Exists(m)}}

\* Whatever their class.
MutantOfClass(c) == InPool

\* The entities that clearPlugin() deletes.
OfClass(c) == {e \in InPool : entity[e].class = c}

\* clearPlugin(c).  The caller has noted the names, and calls nothing that
\* follows a pointer of the pool as long as one of them dangles.
ClearPlugin(c) ==
  /\ owed = {}
  /\ DeleteAll(OfClass(c))
  /\ owed' = {n \in Names : Exists(n) /\ entity[entityMap[n]].class = c}
  /\ UNCHANGED <<entityMap, classes, array, loose, appended>>

\* The map is emptied and the entities are forgotten.
MutantForgetAll ==
  /\ owed = {}
  /\ entityMap' = [n \in Names |-> Null]
  /\ UNCHANGED <<entity, array, appended, classes, loose, owed>>

\* PoolStorage::destroy(): the destructor deletes what the map holds; the next
\* getInstance() makes an empty pool.
DestroyPool ==
  /\ owed = {}
  /\ DeleteAll(InPool)
  /\ entityMap' = [n \in Names |-> Null]
  /\ UNCHANGED <<classes, array, loose, owed, appended>>

----------------------------------------------------------------------------
(* Signals.                                                                *)

Grow(a, n) == [a EXCEPT !.size = a.size + n,
                        !.cells = a.cells \o [i \in 1 .. n |-> 0]]

\* The array grows one signal too late.
MutantAddElmt(a, s) ==
  LET room == IF a.rank > a.size THEN Grow(a, DEFAULT_SIZE) ELSE a
  IN  [room EXCEPT !.cells[a.rank + 1] = s, !.rank = a.rank + 1]

\* SignalArray::addElmt().
AddElmt(a, s) ==
  LET room == IF a.rank >= a.size THEN Grow(a, DEFAULT_SIZE) ELSE a
  IN  [room EXCEPT !.cells[a.rank + 1] = s, !.rank = a.rank + 1]

\* SignalArray(const SignalArray&): as large as what it holds.
CopyArray(a) == [cells |-> SubSeq(a.cells, 1, a.rank), size |-> a.rank, rank |-> a.rank]

\* SignalArray(sig), and array << sig.
NewArray(s) == AddElmt(Grow(NoArray, DEFAULT_SIZE), s)
PutSignal(s) ==
  /\ Len(appended) < MaxArray
  /\ appended' = Append(appended, s)
  /\ array' = IF array = NoArray THEN NewArray(s) ELSE AddElmt(array, s)
  /\ UNCHANGED <<entity, entityMap, classes, loose, owed>>

\* An array that is passed or returned by value.
PassArray ==
  /\ array # NoArray
  /\ array' = CopyArray(array)
  /\ UNCHANGED <<entity, entityMap, classes, loose, owed, appended>>

\* Another signal of the same name is replaced.
MutantAddSignal(signals, s) ==
  [throws |-> FALSE, signals |-> [signals EXCEPT ![SignalName[s]] = s]]

\* One turn of the loop of signalRegistration(): a signal that is known under
\* its name is skipped, another signal of that name is a conflict.
AddSignal(signals, s) ==
  LET known == signals[SignalName[s]]
  IN  IF known \in {0, s} THEN [throws |-> FALSE, signals |-> [signals EXCEPT ![SignalName[s]] = s]]
      ELSE [throws |-> TRUE, signals |-> signals]

\* The loop over the array: it stops at a conflict.
Registered(e) ==
  FoldLeft(LAMBDA acc, s : IF acc.throws THEN acc ELSE AddSignal(acc.signals, s),
           [throws |-> FALSE, signals |-> entity[e].signals],
           SubSeq(array.cells, 1, array.rank))

\* signalRegistration(array) of e: those before a conflict stay registered.
RegisterSignals(e) ==
  /\ Alive(e) /\ array # NoArray
  /\ entity' = [entity EXCEPT ![e].signals = Registered(e).signals]
  /\ array' = NoArray /\ appended' = <<>>
  /\ UNCHANGED <<entityMap, classes, loose, owed>>

\* signalDeregistration(name) of e.
DeregisterSignal(e, name) ==
  /\ Alive(e) /\ entity[e].signals[name] # 0
  /\ entity' = [entity EXCEPT ![e].signals[name] = 0]
  /\ UNCHANGED <<entityMap, classes, array, loose, owed, appended>>

\* What the lookups find; each throws when there is nothing to find.
getEntity(n) == entityMap[n]
signalOf(e, name) == entity[e].signals[name]

\* PoolStorage::getSignal("n.name").
getSignal(n, name) ==
  IF getEntity(n) = Null \/ signalOf(getEntity(n), name) = 0 THEN <<Null, 0>>
  ELSE <<getEntity(n), signalOf(getEntity(n), name)>>

Next ==
  \/ \E c \in Classes : LoadPlugin(c) \/ UnloadPlugin(c) \/ ClearPlugin(c)
  \/ \E c \in Classes, n \in Names, e \in Addresses :
       NewEntity(c, n, e) \/ ConstructorThrows(c, n, e)
  \/ \E n \in Names : Deregister(n)
  \/ \E e \in Addresses : Delete(e) \/ RegisterSignals(e)
  \/ \E e \in Addresses, name \in Range(SignalName) : DeregisterSignal(e, name)
  \/ \E s \in Signals : PutSignal(s)
  \/ PassArray
  \/ DestroyPool \/ DestroyFactory

Spec == Init /\ [][Next]_vars

----------------------------------------------------------------------------
(* Properties.                                                             *)

\* The types of the variables.
TypeOK ==
  /\ \A e \in Addresses :
       Alive(e) => entity[e] \in [name : Names, class : Classes,
                                  signals : [Range(SignalName) -> Signals \cup {0}]]
  /\ entityMap \in [Names -> Addresses \cup {Null}]
  /\ classes \subseteq Classes /\ loose \subseteq Addresses /\ owed \subseteq Names

\* factory.h:142 makes the caller responsible for freeing entities; the pool
\* keeps their addresses.  But for the names that the caller knows to dangle,
\* an entity that exists for existEntity() (pool.h:93) exists, and has that name:
\* none is deleted twice, and no address that was used again is found under the
\* name of its former entity.
PoolEntriesLive ==
  \A n \in Names \ owed :
    Exists(n) => Alive(entityMap[n]) /\ entity[entityMap[n]].name = n

\* An entity is in the pool under its name, where DestroyPool will delete it, or
\* in the hands of the caller: conflicts, failed constructions, plugins cleared
\* and pools destroyed lose none.
NoOrphan ==
  \A e \in Addresses : Alive(e) => entityMap[entity[e].name] = e \/ e \in loose

\* Whatever is registered under a name, "entity.signal" goes on meaning the same
\* signal until it is deregistered.
RegistrationsKept ==
  [][\A n \in Names \ (owed \cup owed'), name \in Range(SignalName) :
       LET was == getSignal(n, name) 
       IN  was # <<Null, 0>> => getSignal(n, name)' \in {was, <<Null, 0>>}]_vars

\* An array holds the signals put in it, in order, however it grew and was
\* copied, and has a cell for each.
ArrayWhole ==
  /\ array.rank <= array.size /\ array.size = Len(array.cells)
  /\ SubSeq(array.cells, 1, array.rank) = appended
=============================================================================
