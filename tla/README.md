# A verification project for dynamic-graph

dynamic-graph is the C++ library in which a robot's controller is put together at
run time: *entities* own *signals*, signals are plugged into each other, and a
real-time loop asks the outermost ones for their value at every tick, which
computes the rest on demand.  Around this sit a pool and a factory of entities,
commands for an interpreter, tracers that write signals to files, and a logger
that real-time threads may use.

This directory models that code in TLA+, checks the models with TLC and proves
the central invariants with TLAPS.  Paths below are relative to the repository
(`src/...` repeats the repository's own `src` directory where there is one).

- [Inventory](#inventory): the system's parts, what each keeps and what can go wrong
- [Plan](#plan): the modules, and what is left to write
- [The real-time logger](#the-real-time-logger), [The signal graph](#the-signal-graph),
  [Signals that can be plugged](#signals-that-can-be-plugged),
  [Entities and their pool](#entities-and-their-pool),
  [Commands and Values](#commands-and-values), [Tracers](#tracers),
  [Signals as text](#signals-as-text)
- [Runs](#runs), [Proofs](#proofs), [What the checks found](#what-the-checks-found)
- [What is not modelled](#what-is-not-modelled)


## Inventory

### RealTimeLogger — `debug/real-time-logger.cpp`, `real-time-logger.h`

*State*: the ring `buffer_` of string buffers, `frontIdx_`, `backIdx_`, the one
stream `oss_` shared by all entries, the mutex `wmutex`, the attached
`outputs_`, the counter `nbDiscarded_`; a process-wide `instance_` and a spin
thread with `requestShutdown_`.
*Operations*: `front()` (a writer takes the back slot), `operator<<` and
`~RTLoggerStream()` (it fills and closes it), `frontReady()`, `spinOnce()` and
`spin()` (the thread copies slots to the outputs), `addOutputStream()`,
`clearOutputStreams()`, `instance()`, `destroy()`.
*Interaction*: any real-time thread writes, one thread reads, the application
attaches streams and ends it.  Only writers exclude each other, by `try_lock`.
*Hard*: a ring without a lock between its two ends, checks made before the mutex
is owned, a slot given back before it is read, one stream shared by the accepted
and the discarded, shutdown while entries wait.
*Correct when*: what was logged is what comes out, once, whole and in order; the
slot being copied is not written; full and empty are not confused; a writer
never waits; shutdown loses nothing and ends.

### Signal evaluation — `signal.t.cpp`, `signal-time-dependent.h`, `time-dependency.t.cpp`, `signal-base.h`

*State*, per signal: `signalTime`, `ready`, the current and the spare copy of
the value, the type (constant, reference, function); per time-dependent signal
also `dependencies`, `lastAskForUpdate`, `periodTime`, `dependencyType`,
`updateFromAllChildren`.
*Operations*: `access(t)` and `needUpdate(t)`, mutually recursive along the
graph through the user's functions; `setConstant()`, `setReference()`,
`setFunction()`, `setReady()`, `addDependency()`, `removeDependency()`.
*Interaction*: an entity's function reads other signals, which evaluates them;
commands set constants, from the thread of the interpreter.
*Hard*: whether a signal is recomputed depends on the times, on `ready` and on
the sticky `lastAskForUpdate` of everything below it, and on who asked what
before; a constant's `ready` is consumed by its first reader; exceptions leave
half an update behind; an uninitialised flag.
*Correct when*: a reply is computed from what the sources were at the tick;
nothing is recomputed without need, nor more often than its period; no
evaluation enters itself; every evaluation ends.

### SignalPtr — `signal-ptr.t.cpp`

*State*: `signalPtr`, `modeNoThrow`, and for plugs on a signal of a derived type
("abstract" plugs) `transmitAbstract`, `abstractTransmitter`,
`transmitAbstractData`; besides, all of the signal it inherits from.
*Operations*: `plug()`, `unplug()`, the setters of `Signal` (which plug the pointer on
itself), `setConstantDefault()`, and the observers `access()`, `accessCopy()`,
`getTime()`, `needUpdate()`, `checkCompatibility()`, which forward to whatever is
plugged or fall back on the pointer's own signal.
*Interaction*: pointers are plugged on each other across entities, so calls are
forwarded along chains; an address of a value travels as an exception.
*Hard*: five observers decide by different fields where to forward to, and must
agree after every sequence of plugs; the pointer's own two buffers serve as
constant, default and target of abstract plugs.
*Correct when*: all observers follow the last plug; an unplugged pointer follows
nobody; a default survives being plugged and unplugged; no field is followed
that was never set.

### Pool, Entity, Factory, SignalArray — `pool.cpp`, `entity.cpp`, `factory.cpp`, `signal-array.h`

*State*: the pool's map from names to bare pointers; an entity's maps of signals
and commands; the factory's map of constructors; the two singletons; arrays of
references to signals, on their way to a registration.
*Operations*: registering and deregistering entities, signals, commands and
classes; look-ups; creation by class name; `clearPlugin()`; destruction.
*Hard*: entities register themselves while being constructed and do not
deregister when destroyed; addresses are used again; exceptions between two
registrations; who deletes what is a matter of agreement.
*Correct when*: what the pool returns is alive; a name stands for one entity;
each entity is freed once, by the pool or by the caller.

### Command, Value — `command.cpp`, `value.cpp`, `command-*.h`

*State*: a Value owns a cell of the heap; a command keeps a vector of Values.
*Operations*: construction, copy, assignment and destruction of Values, the
conversions of `EitherType`; `addCommand()`, `setParameterValues()`, `execute()`
of the classes of commands.
*Hard*: `new` and `delete` by hand, through a switch over ten types; temporaries; a
command that is executed later than it was given its parameters, and again.
*Correct when*: each cell has one owner and its owner's type; a function is called
with what was last accepted, each argument in its place.

### Tracer, TracerRealTime — `traces/tracer.cpp`, `traces/tracer-real-time.cpp`

*State*: parallel lists of signals, names and files, and the dependencies of
`triger`; the buffers of the real-time variant and, in a further list `hardFiles`, the
files that they go to; the play flag and the start time.
*Operations*: the commands `add`, `clear`, `open`, `close`, `dump`, `start`, `stop`, `empty`,
`setTimeStart`, `setBufferSize`; `record()`, at every evaluation of `triger`.
*Hard*: lists that are walked in parallel and change at different times; buffers
that fill up; files that cannot be created, sizes of which there is no buffer.
*Correct when*: a line in a file belongs to the signal the file was opened for;
each record is written once and whole, or was refused by a full buffer.

### SignalCaster, linear algebra — `signal-caster.cpp`, `signal-cast-helper.*`, `eigen-io.h`

*State*: a registry of casts by the name of the type, with the address of its
`type_info`, filled by static objects of plugins.
*Operations*: `registerCast()`, `unregisterCast()`, `cast()`, `disp()`; the readers of
doubles, vectors and matrices.
*Hard*: one name with two addresses when a library is loaded twice; readers that
look at the state of the stream in places only.
*Correct when*: a registered name keeps its type; a text is read as what it spells
or refused.

### Not core

Exceptions (`exception/`), debug traces (`debug/debug.cpp`), the reader of growing
files (`debug/contiifstream.cpp`, which is not built), helper macros, tests, examples,
documentation, the CMake files.


## Plan

| # | Component | Modules | Abstract specification | Theorems | |
|---|---|---|---|---|---|
| 1 | RealTimeLogger | `RTLogger`, `MCRTLogger`, `RTLoggerProofs`, `NatLemmas` | `LogQueue` | type, mutual exclusion, slot exclusion, ring arithmetic, intact delivery, shutdown, the safety part of `LogQueue` | done |
| 2 | Signal evaluation | `SignalGraph`, `MCSignalGraph`, `SignalGraphProofs` | – | type, no re-entry, freshness between ticks, once per period, no needless run, all inputs new | done for a graph that does not change |
| 3 | SignalPtr | `SignalPtr`, `MCSignalPtr`, `SignalPtrProofs` | a pointer that is what was last plugged (`PointsToInput`) | the same, type, `ObserversAgree`, `NothingUnset`, `DefaultServes` | done |
| 4 | Pool, Entity, Factory, SignalArray | `EntityPool`, `MCEntityPool`, `EntityPoolProofs` | each name leads to a live entity of that name (`PoolEntriesLive`) | the same, type, `NoOrphan`, `ArrayWhole`, `RegistrationsKept` | done |
| 5 | Command, Value | `Commands`, `MCCommands`, `CommandsProofs` | one owner for each cell (`OwnershipExact`) | the same, type, `ParametersKept`, `CallsAsGiven` | done |
| 6 | Tracer, TracerRealTime | `Tracer`, `MCTracer`, `TracerProofs` | a file is the lines recorded for its signal (`FilesWhole`) | the same, type, `FilesMatchSignals` | done for one thread |
| 7 | SignalCaster and its readers | `SignalCaster`, `MCSignalCaster`, `SignalCasterProofs` | a value is what its text spells (`ReadExact`) | the same, type, `CastKept` | done |
| 8 | Signal evaluation, again | `addDependency()`, `removeDependency()`, `setFunction()` between ticks; composed with `SignalPtr` for inputs that are plugged | | once per period, for a graph that changes | to do |
| 9 | Proofs | freshness of sources set at any moment, on trees; `AllInputsNew` where inputs are functions | | | to do |

The order is by what is hardest to test.  The logger comes first, because its
threads share memory without a lock, then the evaluation everything else is for;
the registries, whose faults are sequences of calls, follow.


## The real-time logger

`RTLogger` models the logger with every access to shared memory that another
thread can observe as a step of its own.  `buffer_`, `frontIdx_`, `backIdx_`,
`oss_`, `wmutex`, `outputs_` and `nbDiscarded_` are variables under (nearly)
their own names; each thread has a program counter and its local variables.

| Code | Actions |
|---|---|
| `front()` | `FrontDiscard` (no output, or `full()`), `FrontAccept`, `TryLockFails`, `TryLockSucceeds`, `OpenEntry` |
| `RTLoggerStream::operator<<` | `WriteChar` |
| `~RTLoggerStream()` | `Ends` with a logger, `EndsDiscarded` without |
| `frontReady()` | `FrontReady`, `Unlock` |
| `spin()`, `spinOnce()` | `SpinLoop`, `SpinEmpty`, `SpinNotEmpty`, `TakeSlot`, `CopySlot`, `WriteOutput`, `SpinReturn` |
| `addOutputStream()`, `clearOutputStreams()` | `AddOutputStream`, `ClearOutputStreams` |
| `destroy()` | `RequestShutdown`, `DeleteInstance` |

`published`, `consumed` and `owed` are history variables.  `LogQueue` is the
abstract promise, a bounded first-in first-out queue of whole entries; `RTLogger`
instantiates it with a queue read off the ring itself.

*Abstractions.*  A character of an entry is the entry's number, so that a text
tells whose it is and how long.  A `stringbuf` is its characters and its put
position: rewinding it does not clear it, as in the code.  Memory is
sequentially consistent, which for these accesses is what x86 gives apart from
delayed visibility of stores; weaker machines are not covered, and the indices
are plain fields, so the C++ standard promises less than the model.  The data
races the model does contain have the outcomes the build can produce: an
increment of `nbDiscarded_` or the terminator of a discarded entry may be lost to
another writer.  `outputs_` may change between two iterations of the loop in
`spinOnce()`; what happens within one iteration is not modelled.  Under the
one-writer discipline a terminator written by a discarded entry can still hit
the slot that is being copied: in the model it lands behind the text's own
terminator and changes nothing.

*Discipline.*  `OneWriterAtATime` says whether the callers heed the header's
remark that the logger is not meant for concurrent writing (one entry open at a
time, of whichever thread).  The code does not enforce it, so both values are
run.

*Bounds.*  `MaxEntries` caps the calls of `front()`, `MaxLen` the characters of an
entry.  With 2 slots and 3 entries of up to 2 characters (`rtlogger`) the ring wraps,
fills up, and uses a slot again after a longer entry, whose tail is then behind the
terminator; two streams are enough for one to be attached, or both to be
detached and come back in another order, while the spin thread is at one of them.
One open entry at a time is one writer, whichever thread it is.  Two are enough
for one to overtake the other (`rtlogger_concurrent`, `rtlogger_overfull`, where
only the order of the steps matters and entries have one character).  Queues of
more than one entry are left to the proofs, which hold for every `N`.

*Fairness* (`FairSpec`).  `WF(Reader)`: the spin thread is a thread the operating
system schedules, and its sleep ends.  `WF(FinishEntry(w))`: a stream that was
created is destroyed at the end of its statement.  `WF(DeleteInstance)`: `join()`
returns when the thread is done.  Nothing obliges anyone to log or to shut down.
`ShutdownEnds` rests on the writers stopping some day (`MaxEntries`): the loop of
`spin()` goes on while the ring is not empty, so writers that outrun the spin
thread for ever would keep `destroy()` waiting for ever.


## The signal graph

`SignalGraph` models the recursion of `access()` and `needUpdate()` with an explicit
call stack (`stack`, the running call first), so that another thread's
`setConstant()` or an exception can come between any two steps.  A frame holds
the function (`op`), the signal, where it stands (`at`), the loop index (`it`) and
what the user's function has read so far (`acc`).  A value is the set of
(source, version) pairs it was computed from; this is what freshness is about,
and the payload is irrelevant.  The two buffers of a signal are one cached
value, `copy`: the other one is never read before it is written.

| Code | Actions |
|---|---|
| `TimeDependency::needUpdate()`, `SignalBase::needUpdate()` | `NeedEnter` (the early returns), `NeedDependency`, `NeedAsked`, `NeedLoopEnds` |
| `SignalTimeDependent::access()` | `AccessAsk`, `AccessUpdate`, `AccessCached`, `AccessReturns` |
| `Signal::access()` | `RunConstant` and `ReadConstant`, `RunReference`, `RunFunction` … `BodyEnds` |
| the user's function | `BodyReads`, `BodyGets`, `BodyThrows` (external) |
| `setConstant()` | `SetConstant` (the copy), then `SetConstantReady` |
| `setReady()` | `SetReady` |
| writing the variable behind a reference | `WriteReferenced` (external) |
| the control loop | `Access`, `AskNeedUpdate`, `Tick` (external) |

The graph is a parameter: `Type`, `TimeDep` (which signals are
`SignalTimeDependent`), `Inputs` (what each function reads), `DepArgs` (the
`addDependency()` calls; the code keeps them in a list it pushes to the front of,
so the loop meets them in reverse), `Kind`, `Period`, `AllChildren`, `ByCopy`,
`MayThrow`.  So is the discipline of the application, `SetWhen`: sources are set
between ticks, between two accesses of a tick, or at any moment by another
thread.  `lastAskForUpdate` starts with either value, for no constructor sets
it.  Both reference types of the code are one, `"REFERENCE"`: `access()` tells them
apart only under a provider's mutex, which the build leaves out
(`HAVE_LIBBOOST_THREAD` is not defined by the project's CMake files).  `operator=` tells
them apart too (`signal.t.cpp:263-290`); nothing in this module calls it, and
`SignalCaster` models it with `Signal::set()`, which does.

*Graphs of the runs* (`MCSignalGraph`).  Diamond: a constant `c` read by `a` and `b`,
both read by `out`; the smallest graph in which a source has two readers.  Chain:
`c` under `a`, `a` and the reference `r` under `out`; every source has one reader.
Kinds: two constants, `a` reading both with `updateFromAllChildren`, a
`BOOL_DEPENDENT` `b`, and above them a `out` of period 2.

*Bounds.*  `MaxTime` = 3 ticks and `MaxVersion` = 2 new values per source (1 in Kinds):
a value has to be missed at one tick and looked for at the next two, and a
period of 2 has to elapse once.

*Fairness* (`FairSpec`).  `WF(Evaluate)`: a call that has begun runs on, it waits for
nothing.  `WF(SetConstantReady)`: so does `setConstant()`.


## Signals that can be plugged

`SignalPtr` models a set of plain signals and pointers to signals.  One thread makes
the calls, in any order, so each call is one step.  The fields of a pointer are
variables under their own names; `plugged` is history.

| Code | Actions and operators |
|---|---|
| `plug(ref)` | `PlugSameType`, `PlugAbstract`, `PlugImpossible` (it throws) |
| `plug(NULL)`, `unplug()` | `Unplug` |
| `setConstant()`, `setReference()`, `setFunction()` | the same names; `Own` is their `plug(this)` |
| `setReferenceNonConstant()` | `SetReferenceNonConstant`; `SignalPtr` does not redefine it, so it plugs nothing |
| `setConstantDefault(t)`, `setConstantDefault()`, `unsetConstantDefault()` | `SetConstantDefault`, `KeepAsDefault`, `UnsetConstantDefault` |
| `access()` | `Access`; `AccessHop` is where it forwards to, `Returned` the buffer it returns |
| `accessCopy()` | `Returner`, which forwards as `access()` does, used in `KeepAsDefault` |
| `getTime()`, `needUpdate()`, `checkCompatibility()` | `TimeHop` |

*Abstractions.*  A value is where it comes from: the two buffers of a signal are
cells `<<signal, 1>>` and `<<signal, 2>>`, and `Tcopy` says which is current.  Setting
a constant and recomputing fill the other one and switch.  This is enough to say
which signal a pointer answers for and whether its value is the current one.
Forwarding along a chain of pointers is the recursive function in `End`.
`copyInit`, which no constructor sets, starts with either value.

*Discipline.*  `Acyclic`: the application plugs no circle of pointers.

*Bounds.*  Two pointers of one type, a signal of a type derived from it, one of an
unrelated type: a chain of two hops with an abstract plug at its end, and every
order of plugs on one pointer.  To keep the states few, `Changing` and `Defaulted`
name the signals that are given values (a pointer and the derived signal) and
the pointer that is given defaults.


## Entities and their pool

`EntityPool` models addresses at which there is an entity or nothing.  `entityMap` of
the pool, `classes` of the factory and the array under construction are variables;
`loose`, `owed` and `appended` are history.

| Code | Actions and operators |
|---|---|
| `EntityRegisterer`, `~EntityRegisterer` | `LoadPlugin`, `UnloadPlugin` |
| `FactoryStorage::newEntity()`, `Entity::Entity()`, `registerEntity()` | `NewEntity`, with `Construct` and `Register`; `ConstructorThrows` when the derived class throws |
| `deregisterEntity()` | `Deregister` |
| `~Entity()` | `Delete`, by the caller; `DeleteAll` |
| `clearPlugin()`, both `destroy()` | `ClearPlugin`, `DestroyPool`, `DestroyFactory` |
| `SignalArray`, its `operator<<` and copies | `PutSignal`, `AddElmt`, `PassArray` |
| `signalRegistration()`, `signalDeregistration()` | `RegisterSignals`, `DeregisterSignal` |
| `getEntity()`, `getSignal()` | the operators of these names |

*Discipline.*  The caller may delete any entity, as `tests/factory.cpp:123-135` and
`tests/entity.cpp:59` do without deregistering it.  But while it knows a name to dangle
(`owed`, after such a deletion, `clearPlugin()` or a failed constructor) it calls nothing
that follows the pointers of the pool before it has deregistered that name.  The code
does not enforce it.  Plugins come and go at any time, also while entities of their
classes live.

*Bounds.*  Two addresses, so that one is used again while the other lives; two
names and two classes; three signals per entity of which two have one name, so
that a conflict can come after a success; `DEFAULT_SIZE` 2 and `MaxArray` 3, so that
an array grows after its making and after a copy.  Addresses, names and classes
are interchangeable: nothing in the module tells two of them apart, and the
symmetry of the run is sound for its invariants and its action property.


## Commands and Values

`Commands` models the heap as cells with a type and a datum; an operation on a
Value is a function of the heap, and a call composes these in the order in which
the code allocates and frees, temporaries of `EitherType` included.

| Code | Actions and operators |
|---|---|
| constructors, `~Value()`, `operator=` | `Construct`, `CopyConstruct`, `Destroy`, `Assign`; `NewValue`, `CopyValue`, `DeleteValue`, `AssignValue` |
| `EitherType`, `boolValue()` and its like | `EitherType`, `Holds`, `DataOf` |
| `addCommand()`, `setParameterValues()` | `AddCommand`, `SetParameterValues` |
| `execute()`, `doExecute()` | `Execute`, `DoExecute` |
| `CommandVoid0` to `4`, `CommandVerbose`, `Setter`, `Getter`, `DirectSetter`, `DirectGetter` | the operators of these names: what they ask for and what they do |
| `~Entity()` | `DeleteEntity` |

*Abstractions.*  A datum is one of two, of any type.  Functions bound to commands
store their arguments in attributes, one of each type.  `given` (the data a command
last accepted) and `call` (the function that the last step called, and with what) are
history.

`execute()` checks nothing: of a command that was not given its parameters it reads
`values[0]` of an empty vector, at the address `NULL`, and the process is gone
(`crashed`).  No order of calls is ruled out.

*Bounds.*  Two variables, two commands, one of two parameters of different types,
one that is a setter, a getter, takes two of one type or prints; the two types are the
first and the last that the switches of `value.cpp` treat.  Six cells are enough for
what exists at once: two variables, three parameters, one temporary.


## Tracers

`Tracer` models both classes, `realTime` says which.  The lists of signals and names
and the dependencies of `triger` are variables under their own names; a file is the
cells written to it, a line a run of cells `<<signal, time>>`.  `taken` (the cells a
stream was given and kept) and `asked` (the name asked for each signal) are history.

The real-time tracer has two lists of open files, `files` of buffers and `hardFiles` of
what they are dumped to, which its loops walk in parallel.  `files[i]` of the model is
what such a loop meets at the `i`-th place: the buffer, made for the signal
`files[i].sig`, and the file, opened for the signal `files[i].for`.  `strays` is the
rest of `hardFiles`, after the last buffer: what `openFile()` has opened when there was
no array for the buffer.

| Code | Actions and operators |
|---|---|
| `addSignalToTrace()`, `clearSignalToTrace()` | `AddSignalToTrace`, `ClearSignalToTrace` |
| `openFiles()`, `openFile()`, `closeFiles()` | `OpenFiles`, `HardFile`, `Stream`, `Allocates`, `Opened`, `CloseFiles` |
| `record()`, `recordSignal()` | `Record`, `Recorded`, `RecordSignal`, `Line` |
| `OutStringStream` | `AddData`, `Dumped` |
| `trace()`, `emptyBuffers()` of the real-time tracer | `Trace`, `EmptyBuffers` |
| `start()`, `stop()` and the settings | `Start`, `Stop`, `SetTimeStart`, `SetBufferSize` |
| destruction, and a new tracer | `Renew` |

*Abstractions.*  `openFiles()` is given one directory, prefix and suffix.  A stream
writes at its own place: two streams open on one file overwrite each other, which
happens when two signals have one short name (it drops the entity's), and in the
run when a signal is added twice.  A write that fails after the stream was found good is not
modelled.  One thread makes the calls.

*Bounds.*  Two signals, of lines one and two cells wide, and buffers of three cells, in
which a long line fits once and short ones several times; and a size of which there is
no buffer, by which one file may be left without one (`MaxStrays`).  Lines are recorded
again and again at one time.  Two names: a name that cannot be created and none.


## Signals as text

`SignalCaster` models the registry, by type names and addresses of `type_info`, and
the readers of doubles, vectors and matrices as functions on what is left of a
text and on the state of the stream.  `registerCast`, `unregisterCast`, `Destroy` and
`Set` (`Signal::set()`) are its actions; `Vector`, `Matrix`, `Double` and `Cast` the readers.
What `operator>>` of the standard library does to a character, a number or a word is
external (`Skip`, `Digits`, `Word`, `Decimal`).

`Signal::set()` assigns through `operator=` (`Assigned`), and what counts is what
`access()` then returns (`Accessed`): the signal's copy, or, of a signal that keeps its
reference, the variable referred to (`KeepReference`, which has such a signal in the run).
`ComparesNames` says whether `boost::any_cast` takes two `type_info` of one type for equal
when a library has its own, as it does where their names are compared.

What a text spells is said without the readers: `Tokens` makes of it, character by
character, a sequence of marks and numbers that commas and spaces part, and
`SpellsVector`, `SpellsMatrix` and `SpellsDouble` say with which tokens the text of a
value begins.

*Bounds.*  The texts are two vectors, a matrix and doubles, their beginnings, and
what one missing, spare or wrong character makes of them.  Numbers are short and
without signs or fractions: it is the marks between them that the readers handle.
`ReadExact` asks what is written of a double to read as it of numbers below 100 only,
which `Disp` writes in full.


## Runs

| Run | Question | Checked |
|---|---|---|
| `rtlogger` | One open entry at a time, of several lengths, the spin thread, two streams coming and going, shutdown, with fairness | `TypeOK`, `SlotExclusion`, `RingHoldsUnread`, `DeliveredIntact`, `StreamsInOrder`, `ShutdownDrains`, `QueueSpec` (refinement of `LogQueue`, liveness included), `EventuallyDrained`, `ShutdownEnds` |
| `rtlogger_concurrent` | What is left when writers are concurrent, on a ring of 2 | `WriterAlone`, `OssOnBackSlot`, `NeverBlocking` |
| `signal_diamond` | One source along two paths, set between ticks; every signal accessed and asked in any order | `TypeOK`, `Fresh`, `NoNeedlessRun` |
| `signal_async` | Sources set by another thread between any two steps, one reader each | `Fresh`, `EvaluationEnds` |
| `signal_kinds` | All dependency kinds, periods, `updateFromAllChildren`, `setReady()`, exceptions | `NoReentry`, `OncePerPeriod`, `AllInputsNew` |
| `signal_ptr` | Plugs of every kind, unplugs, setters, defaults and accesses on two pointers in any order | `TypeOK`, `PointsToInput`, `ObserversAgree`, `NothingUnset`, `DefaultServes` |
| `entity_pool` | Plugins, entities and signals that come and go in any order, with failures | `TypeOK`, `PoolEntriesLive`, `NoOrphan`, `ArrayWhole`, `RegistrationsKept` |
| `commands` | Values built, copied, assigned, handed to commands and destroyed, and commands executed, in any order | `TypeOK`, `OwnershipExact`, `ParametersKept`, `CallsAsGiven` |
| `tracer` | The commands of a tracer in any order, around records | `TypeOK`, `FilesMatchSignals`, `FilesWhole` |
| `signal_caster` | Casts registered and unregistered for two addresses; texts with a mistake | `TypeOK`, `ReadExact`, `CastKept` |
| `rtlogger_overfull`, `tracer_names` | Runs that TLC must refute, see [below](#what-the-checks-found) | `BackSlotFree`, `NamesAsAsked` |

The properties in words:

- `SlotExclusion`: `spinOnce()` gives the slot back before it copies it; the slot
  kept free by `full()` is what protects it, no open entry writes into it.
- `RingHoldsUnread`: the distance of the indices is the number of closed entries
  not taken; a full ring is never taken for an empty one.
- `DeliveredIntact`: what is copied out is what was logged, entry by entry.
- `StreamsInOrder`: an attached stream gets whole entries in order.  It may get one
  twice, when the application refills `outputs_` during the loop over it.
- `ShutdownDrains`: the logger is deleted only after every entry closed before the
  request was taken and written.
- `NeverBlocking`: a writer that is scheduled finishes although every other thread
  stalls, the one that holds the mutex and the spin thread included.
- `Fresh`: a reply of `access()` is computed from the versions the sources had when
  the tick began, or later ones.
- `NoNeedlessRun`: a function runs again only if a source below it has changed.
- `OncePerPeriod`: at most one run per period, whoever calls `needUpdate()`.
- `AllInputsNew`: with `updateFromAllChildren`, only when every input has something
  new.
- `NoReentry`: no signal is evaluated within its own evaluation.  Its function
  writes into the spare buffer, of which there is one.
- `PointsToInput`: as long as no abstract plug is met, `access()` returns the current
  value of the signal at the end of the plugs the application made; an unplugged
  pointer returns its default or throws.
- `ObserversAgree`: under the same proviso `getTime()` and `needUpdate()` answer for the
  same signal as `access()`.
- `NothingUnset`: a pointer that returns `*transmitAbstractData` has it set, and a
  constant default has `copyInit` set.
- `DefaultServes`: a pointer with a default does not throw when it is not plugged.
- `PoolEntriesLive`: but for names known to dangle, a name in the pool leads to a
  live entity of that name, also when addresses are used again.
- `NoOrphan`: a live entity is in the pool or in the caller's hands.
- `ArrayWhole`: an array holds what was put in it, however it grew and was copied.
- `RegistrationsKept`: what `entity.signal` means does not change before it is
  deregistered, whatever conflicts arise.
- `OwnershipExact`: every cell has one owner, of its own type, and every Value its
  cell: no double free, no use after free, no leak.
- `ParametersKept`: a command holds what it last accepted, of the types it asks for.
- `CallsAsGiven`: the function of the command that is executed is called with all that
  this command was last given, in order, and sets each attribute to the last argument of
  its type.
- `FilesMatchSignals`: the files that are open are those of the last signals of the
  list, in order, and each buffer meets the file opened for its signal, as long as
  `hardFiles` has nothing after the last buffer; so equal lengths, which is all
  `record()` compares, mean a pairing.  When it has, a signal still goes to its own
  buffer, though not to its own file.
- `FilesWhole`: a file and the buffer before it hold the lines recorded, each once
  and whole, less those that the buffer refused or `empty` discarded.
- `ReadExact`: a value that is set has the size that its text says and the numbers it
  spells, in order and between the right marks, and what is written of a double reads
  as that double.
- `CastKept`: a name that stays registered stays with its type.

Every property of a passing run has a mutant, a definition named `Mutant...` next
to the one it would replace: a plausible slip in that line of the code, under
which TLC finds the property violated in the same run.

`CHECK_DEADLOCK` is on everywhere: `RTLogger` says what remains after the deletion
(`Terminated`), in `SignalGraph` the control loop can always ask again and in
`SignalPtr` any signal be plugged again; `Commands` says that a process that crashed
does nothing more; the registries and tracers can be destroyed
and made again at any time.


## Proofs

Proved with TLAPS, for every value of the constants that satisfies the modules'
assumptions (`N >= 1`, bounds and graphs well typed, a greatest buffer size that is not
negative).

`RTLoggerProofs`:

- `TypeCorrect`: `Spec => []TypeOK`.
- `MutualExclusion` and `WritesToBackSlot`: with any number of concurrent writers at
  most one is between `try_lock()` and `unlock()`, and an open entry is written to
  the slot that `frontReady()` will publish.  Inductive: `MutexInv`.
- `SlotsExclusive` and `RingExact`: `SlotExclusion` and `RingHoldsUnread`, if one entry
  is open at a time.  Neither is inductive.  `RingInv` strengthens them by the three
  facts they rest on: the room that `front()` saw is still there when the entry is
  written (nobody else can have filled it), the slot being copied is the one just
  before `frontIdx_`, and a take that has begun still has an entry to take.  With
  `N - 1` entries waiting `backIdx_` is then exactly the slot being copied, and
  `front()` is refused.  The argument is modular arithmetic, stated once in
  `NatLemmas`.

And what comes out of it, where callers open one entry at a time (`OneWriterAtATime`):

- `Delivers`: `DeliveredIntact`.  `ContentInv` follows an entry from the characters
  written to the copy read: an open entry holds what its writer has put and no
  more (`Begins`), a closed one is terminated and keeps its text in its slot until
  the slot is copied (`Sealed`), and the entry being copied keeps it although the slot was
  given back.  A terminator of a discarded entry reaches a slot only behind the
  text's own.  That slots stay distinct while the indices wrap is `RingInv`'s.
- `StreamsOrdered`: `StreamsInOrder`.  What a stream holds is copies of what was taken,
  never going back (`OutputInv`, which holds for any number of concurrent writers); that
  what was taken are whole entries is `Delivers`.
- `DrainsOnShutdown`: `ShutdownDrains`, from `ShutdownInv`: what was owed when shutdown
  was requested is among the entries closed, and a spin thread that has ended has
  taken them all, for it leaves its loop on an empty ring only.
- `ImplementsQueue`: `Spec` implements the safety part of `LogQueue` (`QueueSafe`) under the
  refinement mapping of `QueueSpec`: `FrontReady` is `Accept`, `TakeSlot` is
  `Handle`, `DeleteInstance` is `Close`, and every other step stutters.  The
  liveness part of `LogQueue` is left to TLC.

`SignalGraphProofs`:

- `TypeCorrect`: `Spec => []TypeOK`, on every graph, cyclic ones included.  The
  strengthening says that `setConstant()` in progress has raised the version.
- `NeverReentered`: `Spec => []NoReentry` for every graph that has a ranking, a
  function into the naturals that falls along inputs and dependencies.  The
  inductive invariant `Ordered` says that signals on the stack rise strictly in
  rank from the innermost call outwards, except that `access()` and its own
  `needUpdate()` share a signal.  `StepShapes` reduces the sixteen actions to the
  four things they do to the stack.
- `NothingMissed`: `Spec => []Fresh` on every acyclic graph in which a new value can
  be noticed (`Watchful`): sources are set between ticks, what a function reads is among
  its signal's dependencies, a period is at most one tick, and nobody uses
  `updateFromAllChildren`, `accessCopy()` or a function that throws.  Each of these is
  needed: the hazards and the other runs show the values that are missed
  without them.  `SignalDiamond.cfg` is such a graph.
  `FreshInv` says why it holds.  A cached result that is not what the present sources
  make is *explained* (`Explained`): something that `needUpdate()` will look at, a
  flag or a time of the signal or of one of its dependencies, still says so.
  What was computed in this tick is up to date with its inputs (`Today`), because
  no source changes once the tick is used.  Calls in progress know what they have
  asked so far (`StackInv`): a loop that has passed a dependency without an answer
  leaves behind a dependency with nothing new.  The consumption of `ready` by the
  first reader, the trap of this code, is harmless between ticks only because
  the reader's own time then tells the second one.  TLC found `FreshInv` to
  hold on the diamond; the ranking serves to show that a call changes nothing above itself.
- `PacedAlways`: `Spec => OncePerPeriod` for every graph, cyclic ones included, and every
  discipline of its application.  `PaceInv` says that a call past the test of the period found
  the period over, and that the sticky flag `lastAsk` is only ever set by such a call, or
  was never cleared since `setReady()`.  No ranking is needed: below a `needUpdate()` there
  are only others of its kind (`Nested`), so that nothing runs, and no time moves,
  between the test of the period and its answer.  TLC found `PaceInv` to hold on `SignalKinds.cfg`.
- `NeverNeedless`: `Spec => NoNeedlessRun` on every acyclic graph that is `Watchful` and
  `Frugal`: a version is the only reason to compute.  Nobody calls `setReady()`, sources
  are CONSTANT (a REFERENCE is news whenever it is asked), every function caches its result
  and none is ALWAYS_READY, and a signal depends on nothing its function does not read.
  `SignalDiamond.cfg` is such a graph.  `ThriftInv`, on top of `FreshInv`, gives every time
  and flag that will make a signal run a `Reason`: it has never run, or a source below it
  has a version it has not seen.  For that, what a result has seen, its inputs have seen
  (`PassedInv`), and no result has a version of a source that is still `ready`
  (`SeenInv`): the one reader of the flag is the first to see the version, and
  whoever reads later is told by the time of the source.  TLC found `ThriftInv` to hold on the diamond.
- `PatientWaitsForAll`: `Spec => AllInputsNew` for every graph in which the functions with
  `updateFromAllChildren` that nobody forces (`Patient`) read, by `access()`, plain constants
  that are among their dependencies and not forced either, none of these functions is
  ALWAYS_READY, and nothing is set while an evaluation runs (`PlainChildren`).
  The rest of the graph is arbitrary: cyclic, of any kind and period, with functions
  that throw or read with `accessCopy()`, signals that are forced.  `SignalKinds.cfg` is
  such a graph.  `PatientInv` says that whatever can say yes to a patient function has a
  version its result has not seen: a flag or time of an input, and its own sticky flag, for
  which all of them do.  While its Tfunction runs, that flag stays cleared, because an
  `access()` of a plain constant asks no `needUpdate()` (`PatientWaits`).  Inputs that
  are functions are not covered: their periods and sticky flags would come into the
  invariant.  TLC found `PatientInv` to hold on `SignalKinds.cfg`, with sources set between
  ticks and between accesses.

`SignalPtrProofs`, for any number of pointers, chains of any length and cycles:

- `TypeCorrect`, `FieldsSet`, `DefaultAlwaysServes`: `TypeOK`, `NothingUnset` and
  `DefaultServes`.
- `ActsAsPointer` and `ObserversTogether`: `PointsToInput` and `ObserversAgree`.  The
  inductive facts are about one pointer: `FieldsAgree` says that an abstract plug in
  use comes with the signal and the copy it stands for, that a pointer that knows no
  abstract transmitter has `signalPtr` where the application plugged it, and that one
  left unplugged has none; `DefaultInit` that a default, once set, has its copy.  That the
  ends of two chains are then the same (`Together`) is an induction on the number of
  hops taken: the two functions that follow a chain agree at each signal it reaches.

`EntityPoolProofs`:

- `PoolLive` and `NoneLost`: `PoolEntriesLive` and `NoOrphan`, for any addresses, names
  and classes.  Neither is inductive.  `PoolInv` adds the two facts on which the
  deletions rest: what the caller has taken out is alive and no name leads to it but
  those known to dangle (`LooseIsOut`), and a name known to dangle is in the pool,
  where the address may be that of a newer entity, but one made under another name
  (`OwedDangles`).  Signals play no part: the proof sees an entity by its name.
- `TypeCorrect`: `TypeOK`.  The loop of `signalRegistration()` leaves nothing but signals
  of the entity (`LoopKeeps`), for an array of any length.
- `MeaningsKept`: the action property `RegistrationsKept`.  A turn of that loop changes no
  name that is taken (`TurnKeeps`), so no loop does, stopped by a conflict or not; and a
  deletion or a construction never touches the entity that a sound name leads to
  (`PoolInv`).
- `ArraysWhole`: `ArrayWhole`, however often an array grows and is copied; its cells up
  to its rank are what was put in it, and its rank never exceeds its size.

`TracerProofs`, where no buffer is asked for of a negative size (`BufferSizes \subseteq Nat`;
the run `tracer` has such a size):

- `FilesMatch`: `FilesMatchSignals`, for any signals and names.  Inductive with two more
  facts (`ListInv`): where files are open, `openFiles()` was called, so that each signal
  added later brings its file; and `hardFiles` has nothing after the last buffer.  What
  is done with a stream leaves it a stream of the same signal (`StreamKept`).
- `TypeCorrect` and `FilesAreWhole`: `TypeOK` and `FilesWhole`.  Inductive: `FileInv`.  A
  stream that is alone on its file is at the end of it, and the file and the buffer
  together are what it took (`Whole`); every stream holds whole cells of its own signal
  (`StreamOK`), those that share a file or cannot write it included.  No stream becomes alone later,
  since files are closed all at once.  That a loop over any number of files
  writes to such a file exactly what its stream was given, whatever the
  others do to theirs, is `WrittenAll`.

`CommandsProofs`, for any types, names and numbers of variables, commands and parameters:

- `MemoryExact` and `TypeCorrect`: `OwnershipExact` and `TypeOK`.  An operation on Values is
  known by the cells that it frees and those that it fills, all else staying as it was
  (`Changes`); operations one after another compose (`Composed`).  The assignment of a
  vector, by which a command stores its parameters, and the temporaries through
  which it reads them are folds over the vector: what a turn of one does
  (`AssignedNext`) gives the whole (`AssigningAll`, `ReadAll`) by `FoldSteps`.  Inductive:
  `CommandsInv`, in which Values have cells of their own (`Separate`) of their type
  (`Sounds`), and no cell in use is without a Value (`NoLeak`).  TLC found it to hold on
  the instance of `Commands.cfg`.
- `GivenKept` and `CalledRight`: `ParametersKept` and `CallsAsGiven`, from the same invariant;
  what a command holds shares no cell with what it was given, so that what `DoExecute`
  reads, cell by cell and through its temporaries, is what was given, in order.  Neither
  supposes that a command is executed after it was given its parameters.

  All four suppose that memory does not run out (`Cells` is not finite): `new` answers
  otherwise with an exception, of which the model has nothing to say.  TLC's
  instance has as many cells as can be in use at once.

`SignalCasterProofs`, for any types, libraries and texts:

- `TypeCorrect` and `NeverReplaced`: `TypeOK`, and the action property `CastKept`, which needs
  of it that functions and `type_info_` agree where a name is registered.
- `ReadsExactly`: `ReadExact`, for texts of any length.  The invariant (`LastRead`) only says
  that a value set is what `Cast` made of a text of its type; the work is about the
  readers.  `lex[k]` is the first `k` characters of the text as tokens (`LexedBy`), and a
  reader that has left `rest` has *read* some tokens (`ReadTo`) when `rest` is the text
  from a place up to which it is these, and no digit follows that would go on with the
  last one.  Each operation that does not fail reads one token or none
  (`ExpectReads`, `NumberReads`, `SeparatorReads`), the loops over numbers and rows as many as
  they are told (`NumbersRead`, `RowsRead`), and no character changes the tokens that have been
  read (`LexedKeeps`, `ReadBegins`).  The readers look at the stream after the size only,
  and go on after a failure; that this does no harm is `FineBefore`: a stream that has
  failed, or a reader that has thrown, does not recover, and the caller looks at the end.
  Together they are `VectorExact`, `MatrixExact` and `DoubleExact`.  Texts are sequences of
  `STRING`s (`CasterAssumption`).

`NatLemmas` has what these share: arithmetic modulo the size of the ring, and induction in
a form the provers can use.  The induction theorems of the library take an operator as a
parameter, which no prover installed can instantiate; `UpTo` is induction for the members
of a set (`0` is in it, and with `n` also `n + 1`), from the least element of the
complement.  `Iterates` and `Folds` show with it that a recursive function
and the fold of a sequence have a solution, without which a `CHOOSE` says nothing about
them; `Prefix` gives the places a fold from the left goes through, and `FoldSteps` the
states between its steps.

Only model-checked: liveness and fairness (`EventuallyDrained`, `ShutdownEnds`,
`NeverBlocking`, `EvaluationEnds`, the liveness part of `QueueSpec`), which the prover does
not do.  Every other property of a passing run is the property of a theorem, some under
the conditions named above on graphs, plugs, writers, sizes of buffers and memory.


## What the checks found

- *Concurrent writers overfill the ring* (`rtlogger_overfull`).  `front()` looks at
  `full()` before it has the mutex and not again; a writer preempted in between
  closes one entry too many, and a full ring looks empty.
- *A signal is traced to the file of another* (`tracer_names`).  `clear` forgets the
  signals and not the names given for their files, which `open` gives to the
  signals added later.

Observed while modelling, without a run of their own:

- `~RTLoggerStream()` writes its `std::ends` before it looks whether it has a logger,
  into the stream that all entries share: with concurrent writers a discarded
  entry truncates another (`DeliveredIntact` does not hold of them).
- `setBufferSize` takes any number.  Of a negative one there is no array, and
  `openFile()` throws when it has added to `hardFiles` and not yet to `files`.  While
  `files` is empty `openFiles()` does not call `closeFiles()`, so the file stays in
  `hardFiles`, one place ahead of every buffer opened later, which is dumped to the
  file of another signal.
- A constant set during a tick, after its first reader, is missed by the others:
  the first reader consumes `ready`, and times are compared with `>`.
- A function that throws leaves its signal marked as computed.
- A pointer plugged on a signal of a derived type keeps the address of one of its
  two buffers, and returns an old value once the signal has switched.
- After an abstract plug `plug(NULL)` leaves `abstractTransmitter`, so `getTime()` and
  `needUpdate()` follow a signal that is no longer plugged; and an abstract plug does
  not clear `signalPtr`, so the observers part ways.
- A function that reads its inputs with `accessCopy()`, as
  `signal-time-dependent.h:28-31` advises, must have accessed them first: `access()` of
  its own signal does not.
- `factory.h:142` makes the caller responsible for freeing an entity, while
  `~PoolStorage()` deletes every entity that is registered; and `factory.h:88-89` says of
  instance names that no check is done on them, while `registerEntity()` of the pool
  throws for one that is taken.  `tests/factory.cpp:123-135` frees what it made and leaves
  the names in the pool.
- The comment at `tracer.cpp:138-141` says that `clearSignalToTrace()` does not close
  the files.  It does, as the help of the command `clear` says.
- `closeFiles()` of the real-time tracer casts its streams to `stringstream`, which they
  are not: they leak, and what was not dumped is lost.  Its `display()` follows
  `iterFile` also when there are fewer files than signals.
- `execute()` of a command that was not given its parameters reads past the end of
  an empty vector; `command.h:59` says that it checks them.
- One `unregisterCast()` undoes two registrations.  The casts defined by
  `DG_SIGNAL_CAST_DEFINITION` do not look at the state of the stream.


## What is not modelled

- Changes of the graph, of a signal's type or function while the loop runs (8 in
  the plan).
- What follows the deletion of the logger: `instance_` is left dangling and a writer
  may hold an open entry.  This is undefined behaviour without outcomes to
  enumerate, so the model stops there.
- Cyclic graphs, whose evaluation overflows the stack.
- A tracer that is dumped by one thread while another records: a data race on the
  bytes of the buffer.
- What the pool does once a pointer it holds dangles and is followed.
- Formatting, and texts of values other than doubles, vectors and matrices.
- `Contiifstream`: it is not built (no target names `contiifstream.cpp`, and its header
  includes a header that does not exist).
- Exceptions, debug traces, helper macros: no state of their own.
