---------------------------- MODULE SignalCaster ----------------------------
(***************************************************************************)
(* Signals as text: the registry of the functions that read and display    *)
(* the values of a type, and the readers themselves.                       *)
(*                                                                         *)
(* The registry is indexed by the name of the type, while values carry     *)
(* the address of its type_info: two libraries that define a type without  *)
(* their symbols being merged give it two addresses.  A text is a sequence *)
(* of characters, of which only those are shown that the readers tell      *)
(* apart; the names of special doubles count as one.  Numbers are digits.  *)
(***************************************************************************)
EXTENDS Integers, SequencesExt

CONSTANTS
  Types,      \* names of types
  Reader,     \* how values of a type are read: "vector", "matrix" or "double"
  Addresses,  \* of type_info objects
  Home,       \* the address that the signal of a type knows
  Texts,      \* the texts given to the signal of a type
  KeepReference,  \* types whose signal sets what it refers to: keepReference, and
                  \* setReferenceNonConstant() called without a mutex
  ComparesNames   \* type_info::operator== looks at the names, not at the addresses

Null == "NULL"

ASSUME CasterAssumption ==
  /\ Null \notin Addresses /\ Null \notin Types /\ Home \in [Types -> Addresses]
  /\ Reader \in [Types -> {"vector", "matrix", "double"}]
  /\ \A t \in Types : Texts[t] \subseteq Seq(STRING)
  /\ KeepReference \subseteq Types /\ ComparesNames \in BOOLEAN

VARIABLES
  functions,   \* functions_: of each type, the address they were compiled for
  type_info,   \* type_info_: what unregisterCast() leaves alone
  signal,      \* of the signal of each type, *Tcopy and *TreferenceNonConst
  last         \* history: the text that was set

vars == <<functions, type_info, signal, last>>

----------------------------------------------------------------------------
(* Reading from an istringstream: what is left to read, whether it has     *)
(* failed, whether an exception was thrown, and the numbers read.          *)

Value == [d \in {"0", "1", "2", "3"} |->
            CASE d = "0" -> 0 [] d = "1" -> 1 [] d = "2" -> 2 [] d = "3" -> 3]
Special == [w \in {"nan", "inf", "+inf", "-inf"} |->      \* doubles that are not numbers
              CASE w = "nan" -> -1 [] w \in {"inf", "+inf"} -> -2 [] w = "-inf" -> -3]

\* What follows the first characters of s that are in a set, and those characters.
After(s, Chars) ==
  LET i == SelectInSeq(s, LAMBDA c : c \notin Chars)
  IN  IF i = 0 THEN <<>> ELSE SubSeq(s, i, Len(s))
Before(s, Chars) == SubSeq(s, 1, Len(s) - Len(After(s, Chars)))

Skip(s) == After(s, {" "})
Digits(s) == Before(s, DOMAIN Value)
Word(s) == Before(s, Range(s) \ {" "})
Decimal(digits) == FoldLeft(LAMBDA n, d : 10 * n + Value[d], 0, digits)

Stream(text) == [rest |-> text, fail |-> FALSE, throws |-> FALSE, numbers |-> <<>>]

\* if (iss >> ch && ch != c) throw: nothing is thrown at the end of the text.
Expect(st, c) ==
  LET s == Skip(st.rest)
  IN  IF st.throws THEN st
      ELSE IF st.fail \/ s = <<>> THEN [st EXCEPT !.fail = TRUE]
      ELSE IF Head(s) # c THEN [st EXCEPT !.throws = TRUE]
      ELSE [st EXCEPT !.rest = Tail(s)]

\* iss >> number: whatever was there before is used when it fails.
Number(st) ==
  LET s == Skip(st.rest)
      digits == Digits(s)
  IN  IF st.fail \/ digits = <<>> THEN [st EXCEPT !.fail = TRUE, !.numbers = Append(@, 0)]
      ELSE [st EXCEPT !.rest = SubSeq(s, Len(digits) + 1, Len(s)),
                      !.numbers = Append(@, Decimal(digits))]

\* if (iss.peek() == ',' || iss.peek() == ' ') iss.ignore()
Separator(st) ==
  IF st.fail \/ st.rest = <<>> THEN [st EXCEPT !.fail = TRUE]
  ELSE IF Head(st.rest) \in {",", " "} THEN [st EXCEPT !.rest = Tail(@)] ELSE st

ThrowIfFailed(st) == [st EXCEPT !.throws = @ \/ st.fail]
Repeat(n, Step(_), st) == FoldLeft(LAMBDA acc, i : Step(acc), st, [i \in 1 .. n |-> i])
Numbers(n, st) == Repeat(n, LAMBDA acc : Separator(Number(acc)), st)

\* operator>> of a vector: [N](v1,...,vN).
Vector(text) ==
  LET size == ThrowIfFailed(Number(Expect(Stream(text), "[")))
      head == Expect(Expect(size, "]"), "(")
      n == IF size.throws THEN 0 ELSE size.numbers[1]
  IN  Expect(Numbers(n, head), ")")

\* operator>> of a matrix: [M,N]((v11,...,v1N),...,(vM1,...,vMN)).
Row(cols, st) == Separator(Expect(Numbers(cols, Expect(st, "(")), ")"))
Rows(rows, cols, st) == Repeat(rows, LAMBDA acc : Row(cols, acc), st)
Matrix(text) ==
  LET size == ThrowIfFailed(Number(Separator(Number(Expect(Stream(text), "[")))))
      head == Expect(Expect(size, "]"), "(")
      rows == IF size.throws THEN 0 ELSE size.numbers[1]
      cols == IF size.throws THEN 0 ELSE size.numbers[2]
  IN  Expect(Rows(rows, cols, head), ")")

\* The cast of doubles reads a word; it knows those that operator>> does not.
Double(text) ==
  LET word == Word(Skip(text))
  IN  IF word # <<>> /\ Range(word) \subseteq DOMAIN Value
      THEN [Stream(text) EXCEPT !.numbers = <<Decimal(word)>>]
      ELSE IF Len(word) = 1 /\ word[1] \in DOMAIN Special
      THEN [Stream(text) EXCEPT !.numbers = <<Special[word[1]]>>]
      ELSE [Stream(text) EXCEPT !.throws = TRUE]

Read(reader, text) ==
  CASE reader = "vector" -> Vector(text)
    [] reader = "matrix" -> Matrix(text)
    [] reader = "double" -> Double(text)

\* A stream that failed is not looked at.
MutantCast(reader, text) ==
  LET st == Read(reader, text) IN IF st.throws THEN <<>> ELSE st.numbers

\* DefaultCastRegisterer::cast(): the numbers read, the sizes first; none when it throws.
Cast(reader, text) ==
  LET st == Read(reader, text) IN IF st.throws \/ st.fail THEN <<>> ELSE st.numbers

----------------------------------------------------------------------------
(* The registry.                                                           *)

Init ==
  /\ functions = [t \in Types |-> Null]
  /\ type_info = [t \in Types |-> Null]
  /\ signal = [t \in Types |-> [copy |-> <<>>, referenced |-> <<>>]]
  /\ last = [type |-> Null, text |-> <<>>]

existsCast(t) == functions[t] # Null

\* getCast() finds a function, whose value any_cast() in signal_cast() takes for one of
\* the type that the signal knows: a library compiled for another address of the
\* type_info makes no difference where type_infos are compared by name.
Usable(t) == existsCast(t) /\ (ComparesNames \/ functions[t] = Home[t])

\* The type_info is inserted: one that is there already stays.
MutantInsertCast(t, a) ==
  /\ existsCast(t) => type_info[t] = a
  /\ functions' = [functions EXCEPT ![t] = a]
  /\ type_info' = [type_info EXCEPT ![t] = IF @ = Null THEN a ELSE @]
  /\ UNCHANGED <<signal, last>>

\* Nothing is compared.
MutantRegisterCast(t, a) ==
  /\ functions' = [functions EXCEPT ![t] = a]
  /\ type_info' = [type_info EXCEPT ![t] = a]
  /\ UNCHANGED <<signal, last>>

\* registerCast() throws when the name is registered for another type.
registerCast(t, a) ==
  /\ existsCast(t) => type_info[t] = a
  /\ functions' = [functions EXCEPT ![t] = a]
  /\ type_info' = [type_info EXCEPT ![t] = a]
  /\ UNCHANGED <<signal, last>>

unregisterCast(t) ==
  /\ existsCast(t)
  /\ functions' = [functions EXCEPT ![t] = Null]
  /\ UNCHANGED <<type_info, signal, last>>

\* destroy(); the next getInstance() makes an empty registry.
Destroy ==
  /\ functions' = [t \in Types |-> Null]
  /\ type_info' = [t \in Types |-> Null]
  /\ UNCHANGED <<signal, last>>

\* What Signal::get(), signal_disp() and the display of a double write.
Name == [n \in 0 .. 3 |-> CHOOSE d \in DOMAIN Value : Value[d] = n]
Spelled(n) == IF n < 10 THEN <<Name[n]>> ELSE <<Name[n \div 10], Name[n % 10]>>
Disp(n) == IF n < 0 THEN <<CHOOSE w \in {"nan", "inf", "-inf"} : Special[w] = n>> ELSE Spelled(n)

\* signal_cast(), by which Signal::set() reads.
signal_cast(t, text) == IF Usable(t) THEN Cast(Reader[t], text) ELSE <<>>

\* operator=: setConstant(), or the copy and what the signal refers to.
Assigned(t, v) ==
  IF t \in KeepReference THEN [copy |-> v, referenced |-> v]
  ELSE [signal[t] EXCEPT !.copy = v]

\* Signal::set(text).  An exception leaves the signal as it was.  Bound: one text is
\* set, nothing that a later call looks at is changed by it.
Set(t, text) ==
  LET v == signal_cast(t, text)
  IN  /\ last.type = Null
      /\ last' = [type |-> t, text |-> text]
      /\ signal' = IF v = <<>> THEN signal ELSE [signal EXCEPT ![t] = Assigned(t, v)]
      /\ UNCHANGED <<functions, type_info>>

\* What access() returns of a signal that was set.
Accessed(t) == IF t \in KeepReference THEN signal[t].referenced ELSE signal[t].copy

Next ==
  \/ \E t \in Types, a \in Addresses : registerCast(t, a)
  \/ \E t \in Types : unregisterCast(t)
  \/ \E t \in Types : \E text \in Texts[t] : Set(t, text)
  \/ Destroy

Spec == Init /\ [][Next]_vars

----------------------------------------------------------------------------
(* Properties.                                                             *)

\* A text as marks and numbers, which commas and spaces part: a digit goes on with the
\* number that it follows.
Mark(c) == [is |-> c, of |-> 0]
Numeral(n) == [is |-> "number", of |-> n]
Lexed(lex, c) ==
  IF c \in DOMAIN Value
  THEN LET ts == lex.tokens
       IN  [tokens |-> IF lex.number THEN [ts EXCEPT ![Len(ts)].of = 10 * @ + Value[c]]
                       ELSE Append(ts, Numeral(Value[c])),
            number |-> TRUE]
  ELSE [tokens |-> IF c \in {",", " "} THEN lex.tokens ELSE Append(lex.tokens, Mark(c)),
        number |-> FALSE]
Tokens(text) == FoldLeft(Lexed, [tokens |-> <<>>, number |-> FALSE], text).tokens

\* The tokens begin with what a value is written as.
Numerals(v, from, n) == [i \in 1 .. n |-> Numeral(v[from + i])]
SpellsVector(ts, v) ==
  /\ Len(v) = 1 + v[1]
  /\ IsPrefix(<<Mark("["), Numeral(v[1]), Mark("]"), Mark("(")>>
              \o Numerals(v, 1, v[1]) \o <<Mark(")")>>, ts)
SpellsMatrix(ts, v) ==
  LET rows == v[1]
      cols == v[2]
      Begin(i) == 5 + i * (cols + 2)        \* the tokens before the row after i rows
  IN  /\ Len(v) = 2 + rows * cols
      /\ IsPrefix(<<Mark("["), Numeral(rows), Numeral(cols), Mark("]"), Mark("(")>>, ts)
      /\ \A i \in 0 .. rows - 1 :
           SubSeq(ts, Begin(i) + 1, Begin(i + 1))
             = <<Mark("(")>> \o Numerals(v, 2 + i * cols, cols) \o <<Mark(")")>>
      /\ Len(ts) > Begin(rows) /\ ts[Begin(rows) + 1] = Mark(")")
SpellsDouble(ts, v) ==
  /\ Len(v) = 1 /\ ts # <<>>
  /\ ts[1] \in {Numeral(v[1])} \cup {Mark(w) : w \in {x \in DOMAIN Special : Special[x] = v[1]}}

\* The types of the variables; the functions are those of the type_info that the
\* name was last registered with.
TypeOK ==
  /\ functions \in [Types -> Addresses \cup {Null}]
  /\ type_info \in [Types -> Addresses \cup {Null}]
  /\ last.type \in Types \cup {Null}
  /\ \A t \in Types : existsCast(t) => functions[t] = type_info[t]

\* A text with a wrong size, a missing or spare number or parenthesis, or that ends
\* too early sets nothing, though the readers go on past the end of the text with
\* whatever number they had; the value that access() then returns and get() shows has
\* the size that the text says and the numbers that it spells, in their order.  What
\* is written of a double reads as that double, the special ones included
\* (signal-cast-helper.cpp:33).  Bound: the numbers below 100, which are written in full.
ReadExact ==
  LET reader == Reader[last.type]
      ts == Tokens(last.text)
      v == Accessed(last.type)
  IN  last.type # Null /\ v # <<>> =>
        /\ signal[last.type].copy = v
        /\ reader = "vector" => SpellsVector(ts, v)
        /\ reader = "matrix" => SpellsMatrix(ts, v)
        /\ reader = "double" => SpellsDouble(ts, v) /\ (v[1] < 100 => Cast(reader, Disp(v[1])) = v)

\* As long as a name is registered it is for the same type_info: no library loaded
\* meanwhile changes how the signals made before it are read and shown.
CastKept ==
  [][\A t \in Types : existsCast(t) /\ existsCast(t)' => functions'[t] = functions[t]]_vars
=============================================================================
