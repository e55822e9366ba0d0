----------------------------- MODULE SignalPtr -----------------------------
(***************************************************************************)
(* SignalPtr: the signals that can be plugged.  A pointer is a Signal of   *)
(* its own, the "own layer", with a second layer that forwards access(),   *)
(* accessCopy(), getTime(), needUpdate() and checkCompatibility() to       *)
(* another signal.  There are three ways to be plugged:                    *)
(*   - on a signal of the same type (signalPtr),                           *)
(*   - on itself (signalPtr = this), by the setters of Signal,             *)
(*   - "abstractly", on a signal of a derived type: checkCompatibility()   *)
(*     throws the address of that signal's value as a C++ exception, the   *)
(*     pointer keeps the address and has the signal recomputed.            *)
(* One thread makes the calls, in any order; each is one step.             *)
(*                                                                         *)
(* Values do not matter, where they come from does: the two buffers of a   *)
(* Signal are cells <<signal, 1>> and <<signal, 2>>, for their addresses   *)
(* get out.                                                                *)
(***************************************************************************)
EXTENDS Integers, FiniteSets, FiniteSetsExt

CONSTANTS
  Signals,
  Pointers,      \* the SignalPtr objects among them
  Holds,         \* the type T of each signal
  Derived,       \* pairs <<D, B>>: catch (B*) catches a D*
  Changing,      \* the signals that the application gives values
  Defaulted      \* the pointers that it gives defaults

Null == "NULL"

ASSUME SignalsAssumption ==
  /\ IsFiniteSet(Signals) /\ Pointers \subseteq Signals /\ Changing \subseteq Signals
  /\ Defaulted \subseteq Pointers
  /\ Null \notin Signals

VARIABLES
  signalType, copyInit,
  Tcopy,                \* 1 or 2: which of Tcopy1, Tcopy2 is *Tcopy
  signalPtr, modeNoThrow,
  transmitAbstract, abstractTransmitter,
  transmitAbstractData, \* the cell of another signal that access() returns
  plugged               \* history: the signal of the last plug() that returned

ownVars  == <<signalType, copyInit, Tcopy>>
plugVars == <<signalPtr, modeNoThrow, transmitAbstract, abstractTransmitter,
              transmitAbstractData, plugged>>
vars     == <<ownVars, plugVars>>

Cells == Signals \X {1, 2}
NoCell == <<Null, 1>>

Init ==
  /\ signalType = [s \in Signals |-> "CONSTANT"]
  /\ copyInit \in [Signals -> BOOLEAN]      \* no constructor initialises it; it
  /\ \A s \in Signals \ Defaulted : ~copyInit[s]    \* is read of these only
  /\ Tcopy = [s \in Signals |-> 1]
  /\ signalPtr = [p \in Pointers |-> Null]
  /\ modeNoThrow = [p \in Pointers |-> FALSE]
  /\ transmitAbstract = [p \in Pointers |-> FALSE]
  /\ abstractTransmitter = [p \in Pointers |-> Null]
  /\ transmitAbstractData = [p \in Pointers |-> NoCell]
  /\ plugged = [p \in Pointers |-> Null]

----------------------------------------------------------------------------
(* Where a call is forwarded.                                              *)

autoref(p)   == signalPtr[p] = p
isPlugged(p) == signalPtr[p] # Null
isAbstractPluged(p) == signalPtr[p] # Null \/ abstractTransmitter[p] # Null
getAbstractPtr(p) ==
  IF signalPtr[p] # Null THEN signalPtr[p] ELSE abstractTransmitter[p]

\* Definitions named Mutant... are faults the checks must notice; the
\* specification uses none of them.  Here: isPlugged() is not asked.
MutantDefaultFirst(s) == s \in Pointers /\ modeNoThrow[s] /\ copyInit[s]

\* The default given by setConstantDefault() is what access() returns.
Default(s) == s \in Pointers /\ modeNoThrow[s] /\ ~isPlugged(s) /\ copyInit[s]

\* access() and accessCopy() forward to this signal; Null when they throw.
AccessHop(s) ==
  IF s \notin Pointers \/ Default(s) \/ autoref(s) THEN s
  ELSE IF transmitAbstract[s] THEN abstractTransmitter[s]
  ELSE signalPtr[s]

\* getTime(), needUpdate() and checkCompatibility() forward to this one.
TimeHop(s) ==
  IF s \in Pointers /\ isAbstractPluged(s) /\ ~autoref(s)
  THEN getAbstractPtr(s)
  ELSE s

\* The last signal of the forwarding that begins at s, by a function on signals.
End(hop, s) ==
  LET hops[n \in 0 .. Cardinality(Pointers)] ==
        IF n = 0 THEN s
        ELSE IF hops[n - 1] = Null THEN Null ELSE hop[hops[n - 1]]
  IN  hops[Cardinality(Pointers)]

Reached(s) == End([r \in Signals |-> AccessHop(r)], s)   \* whose value access() returns, or Null
Timed(s)   == End([r \in Signals |-> TimeHop(r)], s)     \* whose time getTime() returns

\* A pointer on the way that returns *transmitAbstractData, or else the end.
Abstractly(s) ==
  s \in Pointers /\ ~Default(s) /\ ~autoref(s) /\ transmitAbstract[s]
StopHop(s) == IF Abstractly(s) THEN s ELSE AccessHop(s)
Returner(s) == End([r \in Signals |-> StopHop(r)], s)

----------------------------------------------------------------------------
(* The own layer.                                                          *)

\* The other buffer is always the second one.
MutantSecondCopy(s) == Tcopy' = [Tcopy EXCEPT ![s] = @ + 1]

\* setTcopy(); also Tfunction(getTwork()) followed by switchTcopy().
FillSpareCopy(s) == Tcopy' = [Tcopy EXCEPT ![s] = 3 - @]

\* copyInit is forgotten.
MutantNoCopyInit(s) ==
  /\ signalType' = [signalType EXCEPT ![s] = "CONSTANT"]
  /\ FillSpareCopy(s)
  /\ UNCHANGED copyInit

\* Signal::setConstant().
MakeConstant(s) ==
  /\ signalType' = [signalType EXCEPT ![s] = "CONSTANT"]
  /\ FillSpareCopy(s)
  /\ copyInit' = [copyInit EXCEPT ![s] = TRUE]

\* Signal::setReference(), setReferenceNonConstant() and setFunction().
MakeComputed(s, type) ==
  /\ signalType' = [signalType EXCEPT ![s] = type]
  /\ copyInit' = [copyInit EXCEPT ![s] = FALSE]
  /\ UNCHANGED Tcopy

\* Signal::access(): a constant is returned as it is.
Recompute(s) ==
  /\ signalType[s] # "CONSTANT"
  /\ FillSpareCopy(s)
  /\ copyInit' = [copyInit EXCEPT ![s] = TRUE]
  /\ UNCHANGED signalType

----------------------------------------------------------------------------
(* Plugging.                                                               *)

\* The application makes no circle of pointers.
Acyclic(p, x) == p = x \/ (Reached(x) # p /\ Returner(x) # p /\ Timed(x) # p)

\* plug(ref) when dynamic_cast<Signal<T,Time>*>(ref) succeeds.
Connect(p, x) ==
  /\ transmitAbstract' = [transmitAbstract EXCEPT ![p] = FALSE]
  /\ signalPtr' = [signalPtr EXCEPT ![p] = x]
  /\ plugged' = [plugged EXCEPT ![p] = x]
  /\ UNCHANGED <<modeNoThrow, abstractTransmitter, transmitAbstractData>>

PlugSameType(p, x) ==
  /\ Holds[x] = Holds[p] /\ Acyclic(p, x)
  /\ Connect(p, x)
  /\ UNCHANGED ownVars

\* Only transmitAbstract is cleared.
MutantStaysPlugged(p) ==
  /\ transmitAbstract' = [transmitAbstract EXCEPT ![p] = FALSE]
  /\ plugged' = [plugged EXCEPT ![p] = Null]
  /\ UNCHANGED <<modeNoThrow, signalPtr, abstractTransmitter, transmitAbstractData>>
  /\ UNCHANGED ownVars

\* The copy is dropped with the plug.
MutantForgetsDefault(p) ==
  /\ Connect(p, Null)
  /\ copyInit' = [copyInit EXCEPT ![p] = FALSE]
  /\ UNCHANGED <<signalType, Tcopy>>

\* plug(NULL).
Unplug(p) ==
  /\ Connect(p, Null)
  /\ UNCHANGED ownVars

\* What x->checkCompatibility() throws: the address of the value at the end.
Thrown(x) == LET e == Timed(x) IN <<e, Tcopy[e]>>
Caught(p, x) ==
  LET D == Holds[Timed(x)] IN D = Holds[p] \/ <<D, Holds[p]>> \in Derived

PlugAbstract(p, x) ==
  /\ Holds[x] # Holds[p] /\ Caught(p, x) /\ Acyclic(p, x)
  /\ MakeComputed(p, "REFERENCE")        \* on *Thrown(x)
  /\ transmitAbstract' = [transmitAbstract EXCEPT ![p] = TRUE]
  /\ abstractTransmitter' = [abstractTransmitter EXCEPT ![p] = x]
  /\ transmitAbstractData' = [transmitAbstractData EXCEPT ![p] = Thrown(x)]
  /\ plugged' = [plugged EXCEPT ![p] = x]
  /\ UNCHANGED <<signalPtr, modeNoThrow>>

\* plug() throws; the pointer is not quite what it was.
PlugImpossible(p, x) ==
  /\ Holds[x] # Holds[p] /\ ~Caught(p, x)
  /\ transmitAbstract' = [transmitAbstract EXCEPT ![p] = FALSE]
  /\ UNCHANGED <<signalPtr, modeNoThrow, abstractTransmitter,
                 transmitAbstractData, plugged>>
  /\ UNCHANGED ownVars

----------------------------------------------------------------------------
(* Giving values; a pointer first plugs itself on itself.                  *)

Own(s) == IF s \in Pointers THEN Connect(s, s) ELSE UNCHANGED plugVars

SetConstant(s)  == Own(s) /\ MakeConstant(s)
SetReference(s) == Own(s) /\ MakeComputed(s, "REFERENCE")
\* setReferenceNonConstant(), which SignalPtr does not redefine.
SetReferenceNonConstant(p) ==
  MakeComputed(p, "REFERENCE") /\ UNCHANGED plugVars
SetFunction(s)  == Own(s) /\ MakeComputed(s, "FUNCTION")

\* setConstantDefault(v).
SetConstantDefault(p) ==
  /\ MakeConstant(p)
  /\ modeNoThrow' = [modeNoThrow EXCEPT ![p] = TRUE]
  /\ UNCHANGED <<signalPtr, transmitAbstract, abstractTransmitter,
                 transmitAbstractData, plugged>>

\* setConstantDefault(): what accessCopy() returns, unless it throws, becomes
\* the default.
KeepAsDefault(p) ==
  /\ Returner(p) # Null
  /\ MakeConstant(p)
  /\ modeNoThrow' = [modeNoThrow EXCEPT ![p] = TRUE]
  /\ UNCHANGED <<signalPtr, transmitAbstract, abstractTransmitter,
                 transmitAbstractData, plugged>>

UnsetConstantDefault(p) ==
  /\ modeNoThrow[p]
  /\ modeNoThrow' = [modeNoThrow EXCEPT ![p] = FALSE]
  /\ UNCHANGED <<signalPtr, transmitAbstract, abstractTransmitter,
                 transmitAbstractData, plugged>>
  /\ UNCHANGED ownVars

----------------------------------------------------------------------------
(* The control loop reads a signal.                                        *)

\* A call that throws, returns a default or a constant changes nothing.
Access(s) ==
  /\ Reached(s) # Null /\ ~Default(Reached(s))
  /\ Recompute(Reached(s))
  /\ UNCHANGED plugVars

\* The cell *Tcopy of e when e has just been accessed.
Current(e) ==
  <<e, IF Default(e) \/ signalType[e] = "CONSTANT" THEN Tcopy[e] ELSE 3 - Tcopy[e]>>

\* The cell that access() on s returns, NoCell when it throws.
Returned(s) ==
  LET r == Returner(s)
  IN  IF Reached(s) = Null THEN NoCell
      ELSE IF Abstractly(r) THEN transmitAbstractData[r] ELSE Current(r)

Plug(p, x) == PlugSameType(p, x) \/ PlugAbstract(p, x) \/ PlugImpossible(p, x)

Next ==
  \/ \E p \in Pointers :
       \/ \E x \in Signals : Plug(p, x)
       \/ Unplug(p)
  \/ \E p \in Defaulted :
       SetConstantDefault(p) \/ KeepAsDefault(p) \/ UnsetConstantDefault(p)
  \/ \E p \in Pointers \cap Changing : SetReferenceNonConstant(p)
  \/ \E s \in Changing : SetConstant(s) \/ SetReference(s) \/ SetFunction(s)
  \/ \E s \in Signals : Access(s)

Spec == Init /\ [][Next]_vars

----------------------------------------------------------------------------
(* Properties.                                                             *)

TypeOK ==
  /\ signalType \in [Signals -> {"CONSTANT", "REFERENCE", "FUNCTION"}]
  /\ copyInit \in [Signals -> BOOLEAN] /\ Tcopy \in [Signals -> {1, 2}]
  /\ signalPtr \in [Pointers -> Signals \cup {Null}]
  /\ plugged \in [Pointers -> Signals \cup {Null}]
  /\ abstractTransmitter \in [Pointers -> Signals \cup {Null}]
  /\ transmitAbstractData \in [Pointers -> Cells \cup {NoCell}]
  /\ transmitAbstract \in [Pointers -> BOOLEAN]
  /\ modeNoThrow \in [Pointers -> BOOLEAN]

\* A pointer no abstract plug has been made on: plug() never clears the field.
Plain(s) == s \in Pointers => abstractTransmitter[s] = Null

\* Where the plugs made by the application lead from s.
PlugHop(s) == IF s \in Pointers /\ Plain(s) /\ plugged[s] # Null THEN plugged[s] ELSE s
Followed(s) == End([r \in Signals |-> PlugHop(r)], s)

\* signal-ptr.h:33: a pointer "acts as a "pointer" to the input signal".  As long
\* as no abstract plug is met, access() returns the current value of the signal
\* the plugs lead to; from an unplugged pointer, its default, or it throws.
PointsToInput ==
  \A p \in Pointers :
    LET e == Followed(p)
    IN  Plain(e) =>
          \/ Returned(p) = Current(e)
          \/ e \in Pointers /\ plugged[e] = Null /\ Returned(p) = NoCell

\* getTime() and needUpdate() find their way by other tests on other fields than
\* access() and accessCopy(), and still answer for the same signal; an unplugged
\* pointer answers for nobody else.
ObserversAgree ==
  \A p \in Pointers :
    Plain(p) /\ Plain(Followed(p)) => Timed(p) = Followed(p) /\ Reached(p) \in {Timed(p), Null}

\* A field that no constructor sets, or sets to NULL, is not followed before some
\* call has set it: transmitAbstractData and copyInit.
NothingUnset ==
  \A p \in Pointers :
    /\ transmitAbstract[p] =>
         abstractTransmitter[p] # Null /\ transmitAbstractData[p] # NoCell
    /\ modeNoThrow[p] /\ signalType[p] = "CONSTANT" => copyInit[p]

\* A pointer that was given a default does not throw while it is not plugged,
\* until setReference(), setFunction() or an abstract plug forget the default.
DefaultServes ==
  \A p \in Pointers :
    modeNoThrow[p] /\ plugged[p] = Null /\ signalType[p] = "CONSTANT" => Reached(p) # Null
=============================================================================
