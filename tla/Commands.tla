------------------------------ MODULE Commands ------------------------------
(***************************************************************************)
(* The commands of an entity and the Values they take and return.  A Value *)
(* owns a cell of the heap that holds its data; copying one allocates a    *)
(* cell, assigning or destroying one frees a cell, by hand.  A command is  *)
(* given a vector of Values (setParameterValues) and executed later, any   *)
(* number of times, with what it then holds.                               *)
(*                                                                         *)
(* One thread, the interpreter, makes the calls.  Each is one step; inside *)
(* a step the heap is passed from operation to operation, in the order of  *)
(* the code.  What the data is does not matter: a cell holds its type and  *)
(* one of a few data.  given and call are history variables.               *)
(***************************************************************************)
EXTENDS Integers, FiniteSets, FiniteSetsExt, SequencesExt

CONSTANTS
  Types,      \* the types in use, among those of ValueHelper
  Data,       \* what a value of any type may hold
  Cells,      \* addresses, numbered; 0 is NULL
  Vars,       \* the variables of type Value in the caller
  Names,      \* the names commands are added under
  Offered     \* the commands that entities add under each name

\* Every type a Value may hold, but none: Value::Type, ValueHelper<T>::TypeID.
TypeIDs == {"BOOL", "UNSIGNED", "INT", "FLOAT", "DOUBLE", "STRING", "VECTOR",
            "MATRIX", "MATRIX4D"}

VARIABLES
  heap,       \* what each cell holds
  var,        \* the callers' Values; Unborn when there is none
  commands,   \* commandMap of the entity
  params,     \* valueVector_ of each command
  member,     \* the attributes of the entity, one for each type
  given,      \* history: the data of the last vector that was accepted
  call,       \* history: the bound function the last step called, if any
  crashed     \* the process is gone

objects == <<heap, var, commands, params, member, given>>
vars    == <<objects, call, crashed>>

Free      == [type |-> "FREE", data |-> 0]
None      == [type_ |-> "NONE", value_ |-> 0]
Unborn    == [type_ |-> "UNBORN", value_ |-> 0]
NoCommand == [args |-> <<>>, does |-> "nothing", of |-> "NONE"]
NoCall    == [of |-> {}, args |-> <<>>]

----------------------------------------------------------------------------
(* The classes of commands: the types they ask for and what they do.  The  *)
(* functions bound to commands store their arguments in the attributes.    *)

Command(args, does, T) == [args |-> args, does |-> does, of |-> T]

CommandVoid0                   == Command(<<>>, "set", "NONE")
CommandVoid1(T)                == Command(<<T>>, "set", "NONE")
CommandVoid2(T1, T2)           == Command(<<T1, T2>>, "set", "NONE")
CommandVoid3(T1, T2, T3)       == Command(<<T1, T2, T3>>, "set", "NONE")
CommandVoid4(T1, T2, T3, T4)   == Command(<<T1, T2, T3, T4>>, "set", "NONE")
CommandVerbose                 == Command(<<>>, "print", "STRING")

\* Setter is specialised for each type but Matrix4d; the others take any type.
IntegralSetter(T) == Command(<<T>>, "set", T)
FloatingSetter(T) == Command(<<T>>, "set", T)
ObjectSetter(T) == Command(<<T>>, "set", T)
DirectSetter(T) == Command(<<T>>, "set", T)
Getter(T)       == Command(<<>>, "get", T)
DirectGetter(T) == Command(<<>>, "get", T)

Catalogue ==
  {CommandVoid0, CommandVerbose}
    \cup (UNION {{CommandVoid1(T), DirectSetter(T), Getter(T), DirectGetter(T)} :
                   T \in Types})
    \cup {IntegralSetter(T) : T \in Types \cap {"BOOL", "UNSIGNED", "INT"}}
    \cup {FloatingSetter(T) : T \in Types \cap {"FLOAT", "DOUBLE"}}
    \cup {ObjectSetter(T) : T \in Types \cap {"STRING", "VECTOR", "MATRIX"}}
    \cup {CommandVoid2(T, U) : T, U \in Types}
    \cup {CommandVoid3(T, U, V) : T, U, V \in Types}
    \cup {CommandVoid4(T, U, V, W) : T, U, V, W \in Types}

ASSUME CommandsAssumption ==
  /\ Types \subseteq TypeIDs /\ Offered \in [Names -> SUBSET Catalogue]
  /\ Cells \subseteq Nat \ {0}
  /\ Data \subseteq Nat \ {0} /\ Data # {}

----------------------------------------------------------------------------
(* Values.  An operation that allocates returns the heap it leaves and the *)
(* Value it makes.                                                         *)

\* new T(data), for every constructor of Value from data.
NewValue(h, T, d) ==
  LET c == Min({a \in Cells : h[a] = Free})
  IN  [heap |-> [h EXCEPT ![c] = [type |-> T, data |-> d]],
       value |-> [type_ |-> T, value_ |-> c]]

\* boolValue() and its like read the cell when the type is the one asked for;
\* otherwise they throw.
Holds(v, T) == v.type_ = T
DataOf(h, v) == h[v.value_].data

\* The copy designates the same cell.
MutantShallowCopy(h, v) == [heap |-> h, value |-> v]

\* Value(const Value&) and copyValue().
CopyValue(h, v) ==
  IF v = None THEN [heap |-> h, value |-> None]
  ELSE NewValue(h, v.type_, DataOf(h, v))

\* The switch of deleteValue() without the last type.
MutantDeleteSome(h, v) ==
  IF v.type_ \in {"NONE", "MATRIX4D"} THEN h ELSE [h EXCEPT ![v.value_] = Free]

\* ~Value() and deleteValue().
DeleteValue(h, v) == IF v = None THEN h ELSE [h EXCEPT ![v.value_] = Free]

\* v = w for two different Values.  What operator= returns is a copy that dies
\* at once.
AssignValue(h, v, w) == CopyValue(DeleteValue(h, v), w)

\* v.value() converted to T, the type of v: EitherType copies the Value, reads
\* the data and destroys the copy.
EitherType(h, v) ==
  LET copy == CopyValue(h, v)
  IN  [heap |-> DeleteValue(copy.heap, copy.value), data |-> DataOf(copy.heap, copy.value)]

(* Vectors of Values.                                                      *)

\* vs = ws for vectors of one length: element by element.
AssignAll(h, vs, ws) ==
  FoldLeft(LAMBDA acc, i : LET c == AssignValue(acc.heap, vs[i], ws[i])
                           IN  [heap |-> c.heap, values |-> Append(acc.values, c.value)],
           [heap |-> h, values |-> <<>>], [i \in DOMAIN vs |-> i])

\* A copy of ws is made of new Values, which hold nothing yet.
CopyAll(h, ws) == AssignAll(h, [i \in DOMAIN ws |-> None], ws)

\* Every Value of a set is destroyed, whatever the order.
DeleteAll(h, vs) ==
  [c \in Cells |-> IF \E v \in vs : DeleteValue(h, v)[c] = Free THEN Free ELSE h[c]]

DataOfAll(h, vs) == [i \in DOMAIN vs |-> DataOf(h, vs[i])]

----------------------------------------------------------------------------
Init ==
  /\ heap = [c \in Cells |-> Free]
  /\ var = [x \in Vars |-> Unborn]
  /\ commands = [n \in Names |-> NoCommand]
  /\ params = [n \in Names |-> <<>>]
  /\ member \in [Types -> Data]
  /\ given = [n \in Names |-> <<>>]
  /\ call = NoCall /\ crashed = FALSE

----------------------------------------------------------------------------
(* The caller's Values.                                                    *)

Born(x) == var[x] # Unborn

\* Variable x becomes the Value made.
Make(x, made) ==
  /\ heap' = made.heap
  /\ var' = [var EXCEPT ![x] = made.value]
  /\ UNCHANGED <<commands, params, member, given>>

Construct(x) ==
  /\ ~Born(x)
  /\ \/ Make(x, [heap |-> heap, value |-> None])
     \/ \E T \in Types, d \in Data : Make(x, NewValue(heap, T, d))

CopyConstruct(x, y) == ~Born(x) /\ Born(y) /\ Make(x, CopyValue(heap, var[y]))

\* A Value assigned to itself is deleted before it is copied.
MutantSelfAssign(x, y) ==
  Born(x) /\ Born(y) /\ Make(x, AssignValue(heap, var[x], var[y]))

\* x = y, a Value may be assigned to itself.
Assign(x, y) ==
  /\ Born(x) /\ Born(y)
  /\ IF x = y THEN UNCHANGED objects ELSE Make(x, AssignValue(heap, var[x], var[y]))

Destroy(x) ==
  Born(x) /\ Make(x, [heap |-> DeleteValue(heap, var[x]), value |-> Unborn])

----------------------------------------------------------------------------
(* The entity and its commands.                                            *)

Known(n) == commands[n] # NoCommand

\* A name that is taken makes addCommand() throw.
AddCommand(n) ==
  /\ ~Known(n)
  /\ \E k \in Offered[n] : commands' = [commands EXCEPT ![n] = k]
  /\ UNCHANGED <<heap, var, params, member, given>>

\* What setParameterValues() asks of the values: their number, then their types.
Acceptable(n, ws) ==
  /\ Len(ws) = Len(commands[n].args)
  /\ \A i \in DOMAIN ws : Holds(ws[i], commands[n].args[i])

\* valueVector_ = values; the first time the vector is still empty.
Store(n, ws) ==
  LET new == IF params[n] = <<>> THEN CopyAll(heap, ws) ELSE AssignAll(heap, params[n], ws)
  IN  /\ heap' = new.heap
      /\ params' = [params EXCEPT ![n] = new.values]
      /\ given' = [given EXCEPT ![n] = DataOfAll(heap, ws)]
      /\ UNCHANGED <<var, commands, member>>

\* setParameterValues(ws): it throws, or stores a copy.
SetParameterValues(n, ws) ==
  /\ Known(n)
  /\ IF Acceptable(n, ws) THEN Store(n, ws) ELSE UNCHANGED objects

\* The vectors of Values at hand: the caller's, or what another command holds.
Vectors(n) ==
  {[i \in 1 .. k |-> var[f[i]]] : k \in {Len(commands[n].args)},
                                  f \in [1 .. Len(commands[n].args) -> {x \in Vars : Born(x)}]}
    \cup {params[m] : m \in Names \ {n}}

\* The first parameter is read again and again.
MutantFirstArgument(n) ==
  FoldLeft(LAMBDA acc, v : LET e == EitherType(acc.heap, params[n][1])
                           IN  [heap |-> e.heap, args |-> Append(acc.args, e.data)],
           [heap |-> heap, args |-> <<>>], params[n])

\* doExecute() converts its parameters into variables of their types, in order.
Arguments(n) ==
  FoldLeft(LAMBDA acc, v : LET e == EitherType(acc.heap, v)
                           IN  [heap |-> e.heap, args |-> Append(acc.args, e.data)],
           [heap |-> heap, args |-> <<>>], params[n])

\* doExecute() with its parameters.  Of two arguments of one type the bound function
\* stores the last in the attribute.
DoExecute(n, x) ==
  LET k == commands[n]
      a == Arguments(n)
      Returns(made) == heap' = made.heap /\ var' = [var EXCEPT ![x] = made.value]
  IN  /\ \/ /\ k.does = "set"
            /\ Returns([heap |-> a.heap, value |-> None])
            /\ member' = [T \in Types |->
                            LET at == {i \in DOMAIN k.args : k.args[i] = T}
                            IN  IF at = {} THEN member[T] ELSE a.args[Max(at)]]
         \/ /\ k.does = "get"
            /\ Returns(NewValue(heap, k.of, member[k.of]))
            /\ UNCHANGED member
         \/ /\ k.does = "print"
            /\ \E d \in Data : Returns(NewValue(heap, k.of, d))
            /\ UNCHANGED member
      /\ call' = [of |-> {n}, args |-> a.args]
      /\ UNCHANGED <<commands, params, given, crashed>>

\* Value x = command->execute(), which checks nothing: the vector of a command that was
\* never given its parameters is empty, and values[0] is read at the address NULL.
Execute(n, x) ==
  /\ Known(n) /\ ~Born(x)
  /\ IF Len(params[n]) = Len(commands[n].args) THEN DoExecute(n, x)
     ELSE crashed' = TRUE /\ call' = NoCall /\ UNCHANGED objects

\* ~Entity() deletes its commands, and they their parameters; another entity
\* takes its place.
DeleteEntity ==
  /\ heap' = DeleteAll(heap, UNION {Range(params[n]) : n \in Names})
  /\ commands' = [n \in Names |-> NoCommand]
  /\ params' = [n \in Names |-> <<>>]
  /\ given' = params'
  /\ member' \in [Types -> Data]
  /\ UNCHANGED var

\* The calls that execute no command.
Other ==
  \/ \E x \in Vars : Construct(x) \/ Destroy(x)
  \/ \E x, y \in Vars : CopyConstruct(x, y) \/ Assign(x, y)
  \/ \E n \in Names : AddCommand(n)
  \/ \E n \in Names : \E ws \in Vectors(n) : SetParameterValues(n, ws)
  \/ DeleteEntity

Next ==
  \/ ~crashed /\ Other /\ call' = NoCall /\ UNCHANGED crashed
  \/ ~crashed /\ \E n \in Names, x \in Vars : Execute(n, x)
  \/ crashed /\ UNCHANGED vars

Spec == Init /\ [][Next]_vars

----------------------------------------------------------------------------
(* Properties.                                                             *)

Value == [type_ : Types \cup {"STRING"}, value_ : Cells] \cup {None}

\* The types of the variables.
TypeOK ==
  /\ heap \in [Cells -> {Free} \cup [type : Types \cup {"STRING"}, data : Data]]
  /\ var \in [Vars -> Value \cup {Unborn}]
  /\ commands \in [Names -> (UNION {Offered[n] : n \in Names}) \cup {NoCommand}]
  /\ \A n \in Names : \A i \in DOMAIN params[n] : params[n][i] \in Value
  /\ member \in [Types -> Data]
  /\ crashed \in BOOLEAN

\* Where the Values that exist are.
Owners == {<<x, 0>> : x \in {y \in Vars : Born(y)}}
            \cup UNION {{<<n, i>> : i \in DOMAIN params[n]} : n \in Names}
Owned(o) == IF o[2] = 0 THEN var[o[1]] ELSE params[o[1]][o[2]]

\* Whatever is copied, assigned, given to commands and returned by them, each
\* Value has a cell of its own that holds its own type, and each cell a Value:
\* nothing is deleted twice, or as another type than it was created as, nothing
\* is read after it was deleted, and nothing leaks.
OwnershipExact ==
  /\ \A o \in Owners : Owned(o) # None => heap[Owned(o).value_].type = Owned(o).type_
  /\ \A o, p \in Owners : o # p /\ Owned(o).value_ = Owned(p).value_ => Owned(o) = None
  /\ \A c \in Cells : heap[c] # Free => \E o \in Owners : Owned(o).value_ = c

\* What a command holds is what it was last given and accepted, of the types it
\* asks for, whatever happened since to the Values it was given.
ParametersKept ==
  \A n \in Names :
    /\ DataOfAll(heap, params[n]) = given[n]
    /\ params[n] # <<>> => Acceptable(n, params[n])

\* The function bound to a command is called with what that very command was last
\* given, all of it and in its order, and an attribute it sets is the last argument
\* of its type; between the two calls the Values given may be gone.
CallsAsGiven ==
  \A n \in call.of :
    LET k == commands[n]
    IN  /\ call.args = given[n] /\ Len(call.args) = Len(k.args)
        /\ k.does = "set" =>
             \A i \in DOMAIN k.args :
               (\A j \in DOMAIN k.args : k.args[j] = k.args[i] => j <= i)
                 => member[k.args[i]] = given[n][i]

=============================================================================
