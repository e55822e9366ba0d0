-------------------------- MODULE SignalPtrProofs --------------------------
(***************************************************************************)
(* For any signals and pointers, of any types, plugged on each other in    *)
(* chains of any length: the observers of SignalPtr, which decide by       *)
(* different fields where to forward to, follow the last plugs.            *)
(*                                                                         *)
(* What is at the end of a chain is a recursive function of its length.    *)
(* The induction is on how far two observers have gone together.           *)
(***************************************************************************)
EXTENDS SignalPtr, NatLemmas, TLAPS

USE SignalsAssumption

----------------------------------------------------------------------------
(* The end of a chain.                                                     *)

Steps == Cardinality(Pointers)
Places == Signals \cup {Null}

LEMMA StepsType == Steps \in Nat
  BY FS_Subset, FS_CardinalityType DEF Steps

\* way goes from s where hop leads, and stays at Null.
Way(way, hop, s) ==
  /\ way \in [0 .. Steps -> Places]
  /\ way[0] = s
  /\ \A n \in 1 .. Steps :
       way[n] = IF way[n - 1] = Null THEN Null ELSE hop[way[n - 1]]

\* The recursion of End has a solution, and its values are signals or Null.
LEMMA EndWay ==
  ASSUME NEW hop, hop \in [Signals -> Places], NEW s \in Signals
  PROVE  \E way : Way(way, hop, s) /\ End(hop, s) = way[Steps]
<1> DEFINE H == [r \in Places |-> IF r = Null THEN Null ELSE hop[r]]
           Solves(f) == f = [n \in 0 .. Steps |->
                               IF n = 0 THEN s
                               ELSE IF f[n - 1] = Null THEN Null ELSE hop[f[n - 1]]]
<1>1. Maps(H, Places) /\ s \in Places
  BY DEF Places, Maps
<1> HIDE DEF H
<1>2. PICK f : Iteration(f, Places, H, s, Steps)
  BY <1>1, StepsType, Iterates
<1>3. Solves(f)
  <2>1. ASSUME NEW n \in 0 .. Steps
        PROVE  f[n] = IF n = 0 THEN s
                      ELSE IF f[n - 1] = Null THEN Null ELSE hop[f[n - 1]]
    <3>1. n # 0 => n \in 1 .. Steps /\ n - 1 \in 0 .. Steps
      BY StepsType
    <3> QED  BY <1>2, <3>1 DEF H, Iteration
  <2> QED  BY <1>2, <2>1 DEF Iteration
<1> DEFINE hops == CHOOSE g : Solves(g)
<1>4. End(hop, s) = hops[Steps]
  BY DEF End, Steps
<1>5. Solves(hops)
  <2> HIDE DEF Solves
  <2> QED  BY <1>3
<1>6. /\ hops = [n \in 0 .. Steps |-> hops[n]]
      /\ hops[0] = s
      /\ \A n \in 1 .. Steps :
           hops[n] = IF hops[n - 1] = Null THEN Null ELSE hop[hops[n - 1]]
  <2>1. 0 \in 0 .. Steps /\ \A n \in 1 .. Steps : n \in 0 .. Steps /\ n # 0
    BY StepsType
  <2> QED  BY <1>5, <2>1
<1> HIDE DEF hops
<1> DEFINE S == {n \in 0 .. Steps : hops[n] \in Places}
<1>7. 0 \in S
  BY <1>1, <1>6, StepsType
<1>8. ASSUME NEW n \in 0 .. Steps, n # Steps, n \in S
      PROVE  n + 1 \in S
  <2>1. n + 1 \in 1 .. Steps /\ n + 1 \in 0 .. Steps /\ (n + 1) - 1 = n
    BY <1>8, StepsType
  <2>2. hops[n + 1] = IF hops[n] = Null THEN Null ELSE hop[hops[n]]
    BY <1>6, <2>1
  <2>3. hops[n + 1] \in Places
    BY <1>8, <2>2 DEF Places
  <2> QED  BY <2>1, <2>3
<1> HIDE DEF S
<1>9. \A n \in 0 .. Steps : n \in S
  BY <1>7, <1>8, StepsType, UpTo
<1>10. \A n \in 0 .. Steps : hops[n] \in Places
  BY <1>9 DEF S
<1>11. Way(hops, hop, s)
  BY <1>6, <1>10 DEF Way
<1> QED  BY <1>4, <1>11

\* A hop that always leads to a signal never ends in Null.
LEMMA EndIsSignal ==
  ASSUME NEW hop, hop \in [Signals -> Signals], NEW s \in Signals
  PROVE  End(hop, s) \in Signals
<1>1. hop \in [Signals -> Places]
  BY DEF Places
<1>2. PICK way : Way(way, hop, s) /\ End(hop, s) = way[Steps]
  BY <1>1, EndWay
<1> DEFINE S == {n \in 0 .. Steps : way[n] \in Signals}
<1>3. 0 \in S
  BY <1>2, StepsType DEF Way
<1>4. ASSUME NEW n \in 0 .. Steps, n # Steps, n \in S
      PROVE  n + 1 \in S
  <2>1. n + 1 \in 1 .. Steps /\ n + 1 \in 0 .. Steps /\ (n + 1) - 1 = n
    BY <1>4, StepsType
  <2>2. way[n + 1] = hop[way[n]]
    BY <1>2, <1>4, <2>1 DEF Way
  <2> QED  BY <1>4, <2>1, <2>2
<1> HIDE DEF S
<1>5. Steps \in S
  BY <1>3, <1>4, StepsType, UpTo
<1> QED  BY <1>2, <1>5 DEF S

----------------------------------------------------------------------------
(* Types.                                                                  *)

LEMMA HopTypes ==
  ASSUME TypeOK
  PROVE  /\ [r \in Signals |-> AccessHop(r)] \in [Signals -> Places]
         /\ [r \in Signals |-> StopHop(r)] \in [Signals -> Places]
         /\ [r \in Signals |-> TimeHop(r)] \in [Signals -> Signals]
         /\ [r \in Signals |-> PlugHop(r)] \in [Signals -> Signals]
<1>1. ASSUME NEW r \in Signals PROVE AccessHop(r) \in Places /\ StopHop(r) \in Places
  BY DEF TypeOK, AccessHop, StopHop, Places
<1>2. ASSUME NEW r \in Signals PROVE TimeHop(r) \in Signals
  BY DEF TypeOK, TimeHop, isAbstractPluged, getAbstractPtr
<1>3. ASSUME NEW r \in Signals PROVE PlugHop(r) \in Signals
  BY DEF TypeOK, PlugHop
<1> QED  BY <1>1, <1>2, <1>3

LEMMA EndTypes ==
  ASSUME TypeOK, NEW s \in Signals
  PROVE  Timed(s) \in Signals /\ Followed(s) \in Signals /\ Reached(s) \in Places
<1>1. Timed(s) \in Signals /\ Followed(s) \in Signals
  BY HopTypes, EndIsSignal DEF Timed, Followed
<1>2. PICK way : Way(way, [r \in Signals |-> AccessHop(r)], s)
                 /\ Reached(s) = way[Steps]
  BY HopTypes, EndWay DEF Reached
<1>3. Reached(s) \in Places
  BY <1>2, StepsType DEF Way
<1> QED  BY <1>1, <1>3

\* The types of the two layers of a pointer.
OwnTypes ==
  /\ signalType \in [Signals -> {"CONSTANT", "REFERENCE", "FUNCTION"}]
  /\ copyInit \in [Signals -> BOOLEAN] /\ Tcopy \in [Signals -> {1, 2}]
PlugTypes ==
  /\ signalPtr \in [Pointers -> Places] /\ plugged \in [Pointers -> Places]
  /\ abstractTransmitter \in [Pointers -> Places]
  /\ transmitAbstractData \in [Pointers -> Cells \cup {NoCell}]
  /\ transmitAbstract \in [Pointers -> BOOLEAN] /\ modeNoThrow \in [Pointers -> BOOLEAN]

\* What is done to one of the layers keeps its types.
LEMMA OwnTyped ==
  ASSUME OwnTypes, NEW s \in Signals,
         \/ MakeConstant(s) \/ MakeComputed(s, "REFERENCE") \/ MakeComputed(s, "FUNCTION")
         \/ Recompute(s) \/ UNCHANGED ownVars
  PROVE  OwnTypes'
<1> USE DEF OwnTypes
<1>1. CASE FillSpareCopy(s) /\ copyInit' = [copyInit EXCEPT ![s] = TRUE]
           /\ (UNCHANGED signalType \/ signalType' = [signalType EXCEPT ![s] = "CONSTANT"])
  <2>1. Tcopy' \in [Signals -> {1, 2}]
    BY <1>1 DEF FillSpareCopy
  <2>2. copyInit' \in [Signals -> BOOLEAN]
    BY <1>1
  <2>3. signalType' \in [Signals -> {"CONSTANT", "REFERENCE", "FUNCTION"}]
    BY <1>1
  <2> QED  BY <2>1, <2>2, <2>3
<1>2. CASE MakeComputed(s, "REFERENCE") \/ MakeComputed(s, "FUNCTION")
  <2>1. copyInit' \in [Signals -> BOOLEAN] /\ UNCHANGED Tcopy
    BY <1>2 DEF MakeComputed
  <2>2. signalType' \in [Signals -> {"CONSTANT", "REFERENCE", "FUNCTION"}]
    BY <1>2 DEF MakeComputed
  <2> QED  BY <2>1, <2>2
<1>3. CASE UNCHANGED ownVars
  BY <1>3 DEF ownVars
<1> QED  BY <1>1, <1>2, <1>3 DEF MakeConstant, Recompute

LEMMA PlugTyped ==
  ASSUME PlugTypes,
         \/ UNCHANGED plugVars
         \/ \E p \in Pointers, x \in Places : Connect(p, x)
         \/ \E s \in Signals : Own(s)
         \/ \E p \in Pointers, x \in Signals : PlugImpossible(p, x)
         \/ \E p \in Pointers, mode \in BOOLEAN :
              /\ modeNoThrow' = [modeNoThrow EXCEPT ![p] = mode]
              /\ UNCHANGED <<signalPtr, transmitAbstract, abstractTransmitter,
                             transmitAbstractData, plugged>>
  PROVE  PlugTypes'
<1> USE DEF PlugTypes, Places
<1>1. CASE UNCHANGED plugVars
  BY <1>1 DEF plugVars
<1>2. ASSUME NEW p \in Pointers, NEW x \in Places, Connect(p, x) PROVE PlugTypes'
  BY <1>2 DEF Connect
<1>3. ASSUME NEW p \in Pointers, NEW x \in Signals, PlugImpossible(p, x) PROVE PlugTypes'
  BY <1>3 DEF PlugImpossible
<1>4. ASSUME NEW p \in Pointers, NEW mode \in BOOLEAN,
             modeNoThrow' = [modeNoThrow EXCEPT ![p] = mode],
             UNCHANGED <<signalPtr, transmitAbstract, abstractTransmitter,
                         transmitAbstractData, plugged>>
      PROVE  PlugTypes'
  BY <1>4
<1> QED  BY <1>1, <1>2, <1>3, <1>4 DEF Own

\* Every reachable state is well typed; in particular getTime() finds a signal to
\* answer for, whatever was plugged.
THEOREM TypeCorrect == Spec => []TypeOK
<1>1. Init => TypeOK
  BY DEF Init, TypeOK
<1>2. TypeOK /\ [Next]_vars => TypeOK'
  <2> SUFFICES ASSUME TypeOK, OwnTypes, PlugTypes, [Next]_vars PROVE OwnTypes' /\ PlugTypes'
    BY DEF TypeOK, OwnTypes, PlugTypes, Places
  <2>1. ASSUME NEW p \in Pointers, NEW x \in Signals, PlugSameType(p, x)
        PROVE  OwnTypes' /\ PlugTypes'
    BY <2>1, OwnTyped, PlugTyped DEF PlugSameType, Places
  <2>2. ASSUME NEW p \in Pointers, NEW x \in Signals, PlugAbstract(p, x)
        PROVE  OwnTypes' /\ PlugTypes'
    <3>1. Thrown(x) \in Cells
      BY EndTypes DEF Thrown, Cells, TypeOK
    <3>2. OwnTypes'
      BY <2>2, OwnTyped DEF PlugAbstract
    <3>3. transmitAbstractData' \in [Pointers -> Cells \cup {NoCell}]
      BY <2>2, <3>1 DEF PlugAbstract, PlugTypes
    <3>4. PlugTypes'
      BY <2>2, <3>3 DEF PlugAbstract, PlugTypes, Places
    <3> QED  BY <3>2, <3>4
  <2>3. ASSUME NEW p \in Pointers, NEW x \in Signals, PlugImpossible(p, x)
        PROVE  OwnTypes' /\ PlugTypes'
    BY <2>3, OwnTyped, PlugTyped DEF PlugImpossible
  <2>4. ASSUME NEW p \in Pointers, Unplug(p) PROVE OwnTypes' /\ PlugTypes'
    BY <2>4, OwnTyped, PlugTyped DEF Unplug, Places
  <2>5. ASSUME NEW p \in Pointers, SetConstantDefault(p) \/ KeepAsDefault(p)
        PROVE  OwnTypes' /\ PlugTypes'
    BY <2>5, OwnTyped, PlugTyped DEF SetConstantDefault, KeepAsDefault
  <2>6. ASSUME NEW p \in Pointers, UnsetConstantDefault(p) PROVE OwnTypes' /\ PlugTypes'
    BY <2>6, OwnTyped, PlugTyped DEF UnsetConstantDefault
  <2>7. ASSUME NEW s \in Signals, SetConstant(s) \/ SetReference(s) \/ SetFunction(s)
        PROVE  OwnTypes' /\ PlugTypes'
    BY <2>7, OwnTyped, PlugTyped DEF SetConstant, SetReference, SetFunction
  <2>8. ASSUME NEW p \in Pointers, SetReferenceNonConstant(p) PROVE OwnTypes' /\ PlugTypes'
    BY <2>8, OwnTyped, PlugTyped DEF SetReferenceNonConstant
  <2>9. ASSUME NEW s \in Signals, Access(s) PROVE OwnTypes' /\ PlugTypes'
    <3>1. Reached(s) \in Signals
      BY <2>9, EndTypes DEF Access, Places
    <3> QED  BY <2>9, <3>1, OwnTyped, PlugTyped DEF Access
  <2>10. ASSUME UNCHANGED vars PROVE OwnTypes' /\ PlugTypes'
    BY <2>10 DEF vars, ownVars, plugVars, OwnTypes, PlugTypes
  <2> QED
    BY <2>1, <2>2, <2>3, <2>4, <2>5, <2>6, <2>7, <2>8, <2>9, <2>10 DEF Next, Plug
<1> QED  BY <1>1, <1>2, PTL DEF Spec

----------------------------------------------------------------------------
(* What each field says about the others.                                  *)

\* The own signal of a pointer, from which a default is read: a constant of a pointer
\* that was ever given a default is initialised.
DefaultInit == \A p \in Pointers : modeNoThrow[p] /\ signalType[p] = "CONSTANT" => copyInit[p]

\* transmitAbstract is set by an abstract plug, which sets the fields it stands for; a
\* pointer without one is plugged where the application plugged it; and one that is not
\* plugged has no signalPtr, be there an abstractTransmitter left or not.
FieldsAgree ==
  \A p \in Pointers :
    /\ transmitAbstract[p] => abstractTransmitter[p] # Null /\ transmitAbstractData[p] # NoCell
    /\ abstractTransmitter[p] = Null => signalPtr[p] = plugged[p]
    /\ plugged[p] = Null => signalPtr[p] = Null

\* Whatever is plugged, unplugged and set, the fields go together.
LEMMA FieldsAlways == Spec => [](DefaultInit /\ FieldsAgree)
<1>1. Init => DefaultInit /\ FieldsAgree
  BY DEF Init, DefaultInit, FieldsAgree
<1>2. TypeOK /\ DefaultInit /\ FieldsAgree /\ [Next]_vars => (DefaultInit /\ FieldsAgree)'
  <2> SUFFICES ASSUME TypeOK, OwnTypes, PlugTypes, DefaultInit, FieldsAgree, [Next]_vars
               PROVE  DefaultInit' /\ FieldsAgree'
    BY DEF TypeOK, OwnTypes, PlugTypes, Places
  <2> USE DEF OwnTypes, PlugTypes
  \* The own layer.
  <2>1. ASSUME NEW s \in Signals, MakeConstant(s) \/ Recompute(s), UNCHANGED modeNoThrow
        PROVE  DefaultInit'
    BY <2>1 DEF MakeConstant, Recompute, DefaultInit
  <2>2. ASSUME NEW s \in Signals, UNCHANGED modeNoThrow,
               MakeComputed(s, "REFERENCE") \/ MakeComputed(s, "FUNCTION")
        PROVE  DefaultInit'
    BY <2>2 DEF MakeComputed, DefaultInit
  <2>3. ASSUME NEW p \in Pointers, MakeConstant(p), modeNoThrow' = [modeNoThrow EXCEPT ![p] = TRUE]
        PROVE  DefaultInit'
    BY <2>3 DEF MakeConstant, DefaultInit
  <2>4. ASSUME UNCHANGED ownVars,
               \/ UNCHANGED modeNoThrow
               \/ \E p \in Pointers : modeNoThrow' = [modeNoThrow EXCEPT ![p] = FALSE]
        PROVE  DefaultInit'
    BY <2>4 DEF ownVars, DefaultInit
  \* The plugs.
  <2>5. ASSUME NEW p \in Pointers, NEW x \in Places, Connect(p, x) PROVE FieldsAgree'
    BY <2>5 DEF Connect, FieldsAgree
  <2>6. ASSUME UNCHANGED <<signalPtr, transmitAbstract, abstractTransmitter,
                           transmitAbstractData, plugged>>
        PROVE  FieldsAgree'
    BY <2>6 DEF FieldsAgree
  <2>7. ASSUME NEW s \in Signals, Own(s) PROVE FieldsAgree' /\ UNCHANGED modeNoThrow
    BY <2>7, <2>5, <2>6 DEF Own, plugVars, Connect, Places
  <2>8. ASSUME NEW p \in Pointers, NEW x \in Signals, PlugAbstract(p, x)
        PROVE  DefaultInit' /\ FieldsAgree'
    <3>1. Thrown(x) # NoCell
      BY EndTypes DEF Thrown, NoCell, TypeOK
    <3>2. FieldsAgree'
      BY <2>8, <3>1 DEF PlugAbstract, FieldsAgree, Places
    <3> QED  BY <2>2, <2>8, <3>2 DEF PlugAbstract
  <2>9. ASSUME NEW p \in Pointers, NEW x \in Signals, PlugImpossible(p, x)
        PROVE  DefaultInit' /\ FieldsAgree'
    <3>1. FieldsAgree'
      BY <2>9 DEF PlugImpossible, FieldsAgree
    <3> QED  BY <2>4, <2>9, <3>1 DEF PlugImpossible
  <2>10. ASSUME NEW p \in Pointers, NEW x \in Signals, PlugSameType(p, x)
         PROVE  DefaultInit' /\ FieldsAgree'
    BY <2>4, <2>5, <2>10 DEF PlugSameType, Connect, Places
  <2>11. ASSUME NEW p \in Pointers, Unplug(p) PROVE DefaultInit' /\ FieldsAgree'
    BY <2>4, <2>5, <2>11 DEF Unplug, Connect, Places
  <2>12. ASSUME NEW p \in Pointers,
                SetConstantDefault(p) \/ KeepAsDefault(p) \/ UnsetConstantDefault(p)
         PROVE  DefaultInit' /\ FieldsAgree'
    BY <2>3, <2>4, <2>6, <2>12 DEF SetConstantDefault, KeepAsDefault, UnsetConstantDefault
  <2>13. ASSUME NEW s \in Signals, SetConstant(s) \/ SetReference(s) \/ SetFunction(s)
         PROVE  DefaultInit' /\ FieldsAgree'
    BY <2>1, <2>2, <2>7, <2>13 DEF SetConstant, SetReference, SetFunction
  <2>14. ASSUME NEW p \in Pointers, SetReferenceNonConstant(p)
         PROVE  DefaultInit' /\ FieldsAgree'
    BY <2>2, <2>6, <2>14 DEF SetReferenceNonConstant, plugVars
  <2>15. ASSUME NEW s \in Signals, Access(s) PROVE DefaultInit' /\ FieldsAgree'
    <3>1. Reached(s) \in Signals
      BY <2>15, EndTypes DEF Access, Places
    <3> QED  BY <2>1, <2>6, <2>15, <3>1 DEF Access, plugVars
  <2>16. ASSUME UNCHANGED vars PROVE DefaultInit' /\ FieldsAgree'
    BY <2>4, <2>6, <2>16 DEF vars, plugVars
  <2> QED
    BY <2>8, <2>9, <2>10, <2>11, <2>12, <2>13, <2>14, <2>15, <2>16 DEF Next, Plug
<1> QED  BY <1>1, <1>2, TypeCorrect, PTL DEF Spec

\* No field is followed that was never set.
THEOREM FieldsSet == Spec => []NothingUnset
<1>1. DefaultInit /\ FieldsAgree => NothingUnset
  BY DEF DefaultInit, FieldsAgree, NothingUnset
<1> QED  BY <1>1, FieldsAlways, PTL

----------------------------------------------------------------------------
(* Following the plugs.                                                    *)

\* At a signal that no abstract plug was made on, getTime() goes where the plugs
\* lead; so do access() and accessCopy(), or they throw, where the plugs end.
LEMMA PlainHops ==
  ASSUME TypeOK, FieldsAgree, NEW r \in Signals, Plain(r)
  PROVE  /\ TimeHop(r) = PlugHop(r)
         /\ ~ Abstractly(r) /\ StopHop(r) = AccessHop(r)
         /\ \/ AccessHop(r) = PlugHop(r)
            \/ AccessHop(r) = Null /\ r \in Pointers /\ plugged[r] = Null
<1>1. r \in Pointers => abstractTransmitter[r] = Null /\ ~transmitAbstract[r]
                        /\ signalPtr[r] = plugged[r]
  BY DEF TypeOK, FieldsAgree, Plain
<1>2. ~ Abstractly(r) /\ StopHop(r) = AccessHop(r)
  BY <1>1 DEF Abstractly, StopHop
<1>3. TimeHop(r) = PlugHop(r)
  BY <1>1 DEF TimeHop, PlugHop, isAbstractPluged, getAbstractPtr, autoref, Plain
<1>4. \/ AccessHop(r) = PlugHop(r)
      \/ AccessHop(r) = Null /\ r \in Pointers /\ plugged[r] = Null
  BY <1>1 DEF AccessHop, PlugHop, Default, isPlugged, autoref, Plain
<1> QED  BY <1>2, <1>3, <1>4

\* The plugs end at the first abstract one; so they met none if they do not end there.
LEMMA PlainWay ==
  ASSUME TypeOK, NEW s, NEW way, Way(way, [r \in Signals |-> PlugHop(r)], s),
         \A n \in 0 .. Steps : way[n] \in Signals, Plain(way[Steps]),
         NEW k \in 0 .. Steps
  PROVE  Plain(way[k])
<1> DEFINE S == {n \in 0 .. Steps : k <= n => way[n] = way[k]}
<1>1. SUFFICES ASSUME ~ Plain(way[k]) PROVE FALSE
  OBVIOUS
<1>2. 0 \in S
  BY StepsType
<1>3. ASSUME NEW n \in 0 .. Steps, n # Steps, n \in S
      PROVE  n + 1 \in S
  <2>1. n + 1 \in 1 .. Steps /\ n + 1 \in 0 .. Steps /\ (n + 1) - 1 = n
    BY <1>3, StepsType
  <2>2. CASE k <= n
    <3>1. way[n] = way[k] /\ way[n] \in Signals
      BY <1>3, <2>2
    <3>2. way[n + 1] = PlugHop(way[n])
      BY <2>1, <3>1 DEF Way
    <3>3. way[n + 1] = way[k]
      BY <1>1, <3>1, <3>2 DEF PlugHop
    <3> QED  BY <2>1, <3>3
  <2>3. CASE ~ (k <= n)
    <3>1. k <= n + 1 => k = n + 1
      BY <2>3, StepsType
    <3> QED  BY <2>1, <3>1
  <2> QED  BY <2>2, <2>3
<1> HIDE DEF S
<1>4. Steps \in S
  BY <1>2, <1>3, StepsType, UpTo
<1>5. way[Steps] = way[k]
  BY <1>4, StepsType DEF S
<1> QED  BY <1>1, <1>5

\* All observers go the way of the plugs, or throw where they end.
LEMMA Together ==
  ASSUME TypeOK, FieldsAgree, NEW s \in Signals, Plain(Followed(s))
  PROVE  /\ Timed(s) = Followed(s)
         /\ Returner(s) = Reached(s)
         /\ \/ Reached(s) = Followed(s)
            \/ /\ Reached(s) = Null
               /\ Followed(s) \in Pointers /\ plugged[Followed(s)] = Null
<1> DEFINE plugs == [r \in Signals |-> PlugHop(r)]
           times == [r \in Signals |-> TimeHop(r)]
           accesses == [r \in Signals |-> AccessHop(r)]
           stops == [r \in Signals |-> StopHop(r)]
<1>1. PICK f : Way(f, plugs, s) /\ Followed(s) = f[Steps]
  BY HopTypes, EndWay DEF Followed, Places
<1>2. PICK t : Way(t, times, s) /\ Timed(s) = t[Steps]
  BY HopTypes, EndWay DEF Timed, Places
<1>3. PICK a : Way(a, accesses, s) /\ Reached(s) = a[Steps]
  BY HopTypes, EndWay DEF Reached
<1>4. PICK b : Way(b, stops, s) /\ Returner(s) = b[Steps]
  BY HopTypes, EndWay DEF Returner
<1>5. \A n \in 0 .. Steps : f[n] \in Signals
  <2> DEFINE S == {n \in 0 .. Steps : f[n] \in Signals}
  <2>1. 0 \in S
    BY <1>1, StepsType DEF Way
  <2>2. ASSUME NEW n \in 0 .. Steps, n # Steps, n \in S
        PROVE  n + 1 \in S
    <3>1. n + 1 \in 1 .. Steps /\ n + 1 \in 0 .. Steps /\ (n + 1) - 1 = n
      BY <2>2, StepsType
    <3>2. f[n + 1] = plugs[f[n]] /\ plugs[f[n]] \in Signals
      BY <1>1, <2>2, <3>1, HopTypes DEF Way
    <3> QED  BY <3>1, <3>2
  <2> HIDE DEF S
  <2>3. \A n \in 0 .. Steps : n \in S
    BY <2>1, <2>2, StepsType, UpTo
  <2> QED  BY <2>3 DEF S
<1>6. \A n \in 0 .. Steps : Plain(f[n])
  BY <1>1, <1>5, PlainWay
<1> DEFINE Same(n) ==
             /\ t[n] = f[n] /\ b[n] = a[n]
             /\ \/ a[n] = f[n]
                \/ a[n] = Null /\ f[n] \in Pointers /\ plugged[f[n]] = Null
           S == {n \in 0 .. Steps : Same(n)}
<1>7. 0 \in S
  BY <1>1, <1>2, <1>3, <1>4, StepsType DEF Way
<1>8. ASSUME NEW n \in 0 .. Steps, n # Steps, n \in S
      PROVE  n + 1 \in S
  <2>1. n + 1 \in 1 .. Steps /\ n + 1 \in 0 .. Steps /\ (n + 1) - 1 = n
    BY <1>8, StepsType
  <2>2. Same(n) /\ f[n] \in Signals /\ f[n] # Null /\ Plain(f[n])
    BY <1>5, <1>6, <1>8
  <2>3. f[n + 1] = PlugHop(f[n]) /\ t[n + 1] = TimeHop(f[n])
    BY <1>1, <1>2, <2>1, <2>2 DEF Way
  <2>4. CASE a[n] = f[n]
    <3>1. a[n + 1] = AccessHop(f[n]) /\ b[n + 1] = StopHop(f[n])
      BY <1>3, <1>4, <2>1, <2>2, <2>4 DEF Way
    <3>2. PlugHop(f[n]) = f[n] \/ plugged[f[n]] # Null \/ f[n] \notin Pointers
      BY DEF PlugHop
    <3>3. Same(n + 1)
      BY <2>2, <2>3, <3>1, <3>2, PlainHops
    <3> QED  BY <2>1, <3>3
  <2>5. CASE a[n] = Null /\ f[n] \in Pointers /\ plugged[f[n]] = Null
    <3>1. a[n + 1] = Null /\ b[n + 1] = Null
      BY <1>3, <1>4, <2>1, <2>2, <2>5 DEF Way
    <3>2. PlugHop(f[n]) = f[n]
      BY <2>5 DEF PlugHop
    <3>3. Same(n + 1)
      BY <2>2, <2>3, <2>5, <3>1, <3>2, PlainHops
    <3> QED  BY <2>1, <3>3
  <2> QED  BY <2>2, <2>4, <2>5
<1> HIDE DEF S
<1>9. Steps \in S
  BY <1>7, <1>8, StepsType, UpTo
<1> QED  BY <1>1, <1>2, <1>3, <1>4, <1>9 DEF S

\* A pointer acts as a pointer to its input: whatever chain of pointers lies between,
\* access() returns the value of the signal at the end of the plugs.
THEOREM ActsAsPointer == Spec => []PointsToInput
<1>1. TypeOK /\ FieldsAgree => PointsToInput
  <2> SUFFICES ASSUME TypeOK, FieldsAgree, NEW p \in Pointers, Plain(Followed(p))
               PROVE  \/ Returned(p) = Current(Followed(p))
                      \/ /\ Followed(p) \in Pointers /\ plugged[Followed(p)] = Null
                         /\ Returned(p) = NoCell
    BY DEF PointsToInput
  <2>1. p \in Signals /\ Followed(p) \in Signals /\ Followed(p) # Null
    BY EndTypes
  <2>2. ~ Abstractly(Followed(p))
    BY <2>1, PlainHops
  <2> QED  BY <2>1, <2>2, Together DEF Returned
<1> QED  BY <1>1, TypeCorrect, FieldsAlways, PTL

\* Value, time and need for an update come from the same signal.
THEOREM ObserversTogether == Spec => []ObserversAgree
<1>1. TypeOK /\ FieldsAgree => ObserversAgree
  BY Together DEF ObserversAgree
<1> QED  BY <1>1, TypeCorrect, FieldsAlways, PTL

\* A default serves while the pointer is not plugged.
THEOREM DefaultAlwaysServes == Spec => []DefaultServes
<1>1. TypeOK /\ DefaultInit /\ FieldsAgree => DefaultServes
  <2> SUFFICES ASSUME TypeOK, DefaultInit, FieldsAgree, NEW p \in Pointers,
                      modeNoThrow[p], plugged[p] = Null, signalType[p] = "CONSTANT"
               PROVE  Reached(p) # Null
    BY DEF DefaultServes
  <2> DEFINE accesses == [r \in Signals |-> AccessHop(r)]
  <2>1. accesses[p] = p /\ p \in Signals /\ p # Null
    BY DEF AccessHop, Default, isPlugged, DefaultInit, FieldsAgree
  <2>2. PICK a : Way(a, accesses, p) /\ Reached(p) = a[Steps]
    BY <2>1, HopTypes, EndWay DEF Reached
  <2> DEFINE S == {n \in 0 .. Steps : a[n] = p}
  <2>3. 0 \in S
    BY <2>2, StepsType DEF Way
  <2>4. ASSUME NEW n \in 0 .. Steps, n # Steps, n \in S
        PROVE  n + 1 \in S
    <3>1. n + 1 \in 1 .. Steps /\ n + 1 \in 0 .. Steps /\ (n + 1) - 1 = n
      BY <2>4, StepsType
    <3>2. a[n + 1] = accesses[a[n]]
      BY <2>1, <2>2, <2>4, <3>1 DEF Way
    <3> QED  BY <2>1, <2>4, <3>1, <3>2
  <2> HIDE DEF S
  <2>5. Steps \in S
    BY <2>3, <2>4, StepsType, UpTo
  <2> QED  BY <2>1, <2>2, <2>5 DEF S
<1> QED  BY <1>1, TypeCorrect, FieldsAlways, PTL
=============================================================================
