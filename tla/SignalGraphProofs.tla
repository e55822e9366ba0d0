------------------------- MODULE SignalGraphProofs --------------------------
(***************************************************************************)
(* Type correctness of SignalGraph, and, for every acyclic graph: no       *)
(* evaluation of a signal is entered while another one of it is running;   *)
(* and, if signals depend on what their functions read and sources are set *)
(* between ticks only, what access() replies is computed from the versions *)
(* that the sources had when the tick began (Fresh), whichever results     *)
(* were cached and whatever was asked before.  And, for every graph: a     *)
(* time-dependent function runs once per period (OncePerPeriod).  And, on  *)
(* acyclic graphs where only a new version is news: a function runs again  *)
(* only for a version it has not seen (NoNeedlessRun).  And a function     *)
(* that waits for all its inputs, constants, runs only when each of them   *)
(* has a version it has not seen (AllInputsNew).                           *)
(***************************************************************************)
EXTENDS SignalGraph, SequenceTheorems, TLAPS

----------------------------------------------------------------------------
(* The stack operations.                                                   *)

\* Replacing the running function keeps a stack a stack of the same height,
\* whose other frames do not move.
LEMMA GotoShape ==
  ASSUME NEW st \in Seq(Frames), st # <<>>, NEW f \in Frames
  PROVE  /\ <<f>> \o Tail(st) \in Seq(Frames)
         /\ <<f>> \o Tail(st) # <<>>
         /\ DOMAIN (<<f>> \o Tail(st)) = DOMAIN st
         /\ \A i \in DOMAIN st : (<<f>> \o Tail(st))[i] = IF i = 1 THEN f ELSE st[i]
<1>1. Tail(st) \in Seq(Frames) /\ Len(Tail(st)) = Len(st) - 1
      /\ \A i \in 1 .. Len(st) - 1 : Tail(st)[i] = st[i + 1]
  BY HeadTailProperties
<1>2. <<f>> \in Seq(Frames) /\ Len(<<f>>) = 1 /\ <<f>>[1] = f
  OBVIOUS
<1>3. Len(st) \in Nat \ {0} /\ DOMAIN st = 1 .. Len(st)
  BY EmptySeq, LenProperties
<1> DEFINE g == <<f>> \o Tail(st)
<1>4. /\ g \in Seq(Frames)
      /\ Len(g) = 1 + Len(Tail(st))
      /\ \A i \in 1 .. 1 + Len(Tail(st)) :
           g[i] = IF i <= 1 THEN <<f>>[i] ELSE Tail(st)[i - 1]
  <2>1. /\ g \in Seq(Frames)
        /\ Len(g) = Len(<<f>>) + Len(Tail(st))
        /\ \A i \in 1 .. Len(<<f>>) + Len(Tail(st)) :
             g[i] = IF i <= Len(<<f>>) THEN <<f>>[i] ELSE Tail(st)[i - Len(<<f>>)]
    BY <1>1, <1>2, ConcatProperties
  <2> QED  BY <1>2, <2>1
<1> HIDE DEF g
<1>5. DOMAIN g = 1 .. Len(st) /\ Len(g) = Len(st)
  BY <1>1, <1>3, <1>4, LenProperties
<1>6. g # <<>>
  BY <1>3, <1>5, EmptySeq
<1>7. ASSUME NEW i \in DOMAIN st PROVE g[i] = IF i = 1 THEN f ELSE st[i]
  <2>1. i \in 1 .. Len(st)
    BY <1>3
  <2>2. CASE i = 1
    BY <1>1, <1>2, <1>3, <1>4, <2>1, <2>2
  <2>3. CASE i # 1
    <3>1. g[i] = Tail(st)[i - 1] /\ i - 1 \in 1 .. Len(st) - 1
      BY <1>1, <1>3, <1>4, <2>1, <2>3
    <3>2. Tail(st)[i - 1] = st[(i - 1) + 1]
      BY <3>1, <1>1
    <3> QED  BY <3>1, <3>2, <2>1, <2>3
  <2> QED  BY <2>2, <2>3
<1> QED  BY <1>3, <1>4, <1>5, <1>6, <1>7 DEF g

\* A call puts its frame on top and moves the others down by one.
LEMMA PushShape ==
  ASSUME NEW st \in Seq(Frames), NEW f \in Frames
  PROVE  /\ <<f>> \o st \in Seq(Frames)
         /\ DOMAIN (<<f>> \o st) = 1 .. Len(st) + 1
         /\ \A i \in 1 .. Len(st) + 1 : (<<f>> \o st)[i] = IF i = 1 THEN f ELSE st[i - 1]
<1>1. <<f>> \in Seq(Frames) /\ Len(<<f>>) = 1 /\ <<f>>[1] = f
  OBVIOUS
<1>2. Len(st) \in Nat
  BY LenProperties
<1> DEFINE g == <<f>> \o st
<1>3. /\ g \in Seq(Frames)
      /\ Len(g) = Len(<<f>>) + Len(st)
      /\ \A i \in 1 .. Len(<<f>>) + Len(st) :
           g[i] = IF i <= Len(<<f>>) THEN <<f>>[i] ELSE st[i - Len(<<f>>)]
  BY <1>1, ConcatProperties
<1> HIDE DEF g
<1>4. DOMAIN g = 1 .. Len(st) + 1
  BY <1>1, <1>2, <1>3, LenProperties
<1>5. \A i \in 1 .. Len(st) + 1 : g[i] = IF i = 1 THEN f ELSE st[i - 1]
  BY <1>1, <1>2, <1>3
<1> QED  BY <1>3, <1>4, <1>5 DEF g

\* A return moves the frames up by one.
LEMMA PopShape ==
  ASSUME NEW st \in Seq(Frames), st # <<>>
  PROVE  /\ Tail(st) \in Seq(Frames)
         /\ DOMAIN Tail(st) = 1 .. Len(st) - 1
         /\ \A i \in 1 .. Len(st) - 1 : Tail(st)[i] = st[i + 1]
         /\ Head(st) = st[1] /\ st[1] \in Frames /\ 1 \in DOMAIN st
<1>1. Len(st) \in Nat \ {0}
  BY EmptySeq
<1> QED  BY <1>1, HeadTailProperties, LenProperties, ElementOfSeq

----------------------------------------------------------------------------
(* Type correctness.                                                       *)

\* Calls start from well-typed frames.
LEMMA FrameTypes ==
  ASSUME NEW s \in Signals
  PROVE  CallAccess(s) \in Frames /\ CallNeed(s) \in Frames
  BY DEF CallAccess, CallNeed, Frame, Frames, Values

Places == {"enter", "loop", "ask", "asked", "run", "copy", "body", "input", "ran"}

\* The updates that the steps make to a frame keep it a frame.
LEMMA FrameUpdates ==
  ASSUME NEW f \in Frames
  PROVE  /\ f.sig \in Signals /\ f.it \in Nat \ {0} /\ f.acc \in Values
         /\ [f EXCEPT !.it = @ + 1] \in Frames
         /\ \A x \in Places : [f EXCEPT !.at = x] \in Frames
         /\ \A x \in Places : [f EXCEPT !.at = x, !.it = @ + 1] \in Frames
         /\ \A v \in Values : [f EXCEPT !.acc = v] \in Frames
         /\ \A x \in Places, v \in Values : [f EXCEPT !.at = x, !.acc = v] \in Frames
<1>1. f.sig \in Signals /\ f.it \in Nat \ {0} /\ f.acc \in Values
  BY DEF Frames
<1>2. [f EXCEPT !.it = @ + 1] \in Frames
  BY DEF Frames
<1>3. \A x \in Places : [f EXCEPT !.at = x] \in Frames
  BY DEF Frames, Places
<1>4. \A x \in Places : [f EXCEPT !.at = x, !.it = @ + 1] \in Frames
  <2>1. f.it + 1 \in Nat \ {0}
    BY <1>1
  <2>2. \A x \in Places, k \in Nat \ {0} : [f EXCEPT !.at = x, !.it = k] \in Frames
    BY DEF Frames, Places
  <2> QED  BY <2>1, <2>2
<1>5. \A v \in Values : [f EXCEPT !.acc = v] \in Frames
  BY DEF Frames
<1>6. \A x \in Places, v \in Values : [f EXCEPT !.at = x, !.acc = v] \in Frames
  BY DEF Frames, Places
<1> QED  BY <1>1, <1>2, <1>3, <1>4, <1>5, <1>6

\* Values are closed under what the functions do with them.
LEMMA ValueTypes ==
  /\ {} \in Values
  /\ \A s \in Signals, n \in Nat : {<<s, n>>} \in Values
  /\ \A v, w \in Values : v \cup w \in Values
  BY DEF Values

\* The constructors leave a well-typed state.
LEMMA InitType == Init => TypeOK
<1> SUFFICES ASSUME Init PROVE TypeOK
  OBVIOUS
<1>1. ASSUME NEW s \in Signals
      PROVE  Reverse(DepArgs[s]) \in Seq(Signals)
  <2>1. DepArgs[s] \in Seq(Signals)
    BY GraphAssumption
  <2>2. Len(DepArgs[s]) \in Nat
    BY <2>1, LenProperties
  <2>3. \A i \in 1 .. Len(DepArgs[s]) : DepArgs[s][Len(DepArgs[s]) - i + 1] \in Signals
    BY <2>1, <2>2, ElementOfSeq
  <2> QED  BY <2>2, <2>3 DEF Reverse
<1>2. deps \in [Signals -> Seq(Signals)]
  BY <1>1 DEF Init
<1>3. \A s \in Signals : {<<s, 0>>} \in Values /\ {} \in Values
  BY DEF Values
<1>4. copy \in [Signals -> Values]
  BY <1>3 DEF Init
<1>5. stack \in Seq(Frames)
  BY EmptySeq DEF Init
<1>6. value \in Values /\ reply \in [sig : Signals \cup {NoSignal}, val : Values]
  BY <1>3 DEF Init, Values, NoReply
<1>7. /\ now \in Nat /\ version \in [Signals -> Nat] /\ stime \in [Signals -> Nat]
      /\ floor \in [Signals -> Nat]
  BY DEF Init
<1>8. /\ ready \in [Signals -> BOOLEAN] /\ lastAsk \in [Signals -> BOOLEAN]
      /\ answer \in BOOLEAN /\ used \in BOOLEAN
      /\ setting \in Signals \cup {NoSignal}
  BY DEF Init
<1> QED  BY <1>2, <1>4, <1>5, <1>6, <1>7, <1>8 DEF TypeOK

\* What every step of an evaluation has to work with.
LEMMA TopType ==
  ASSUME TypeOK, stack # <<>>
  PROVE  /\ top \in Frames /\ top.sig \in Signals /\ top.it \in Nat \ {0}
         /\ top.acc \in Values
         /\ Tail(stack) \in Seq(Frames)
         /\ \A f \in Frames : Goto(f) => stack' \in Seq(Frames)
         /\ \A f, g \in Frames : GotoCall(f, g) => stack' \in Seq(Frames)
<1>0. stack \in Seq(Frames)
  BY DEF TypeOK
<1>1. top \in Frames /\ Tail(stack) \in Seq(Frames)
  BY <1>0, PopShape DEF top
<1>2. ASSUME NEW f \in Frames PROVE <<f>> \o Tail(stack) \in Seq(Frames)
  BY <1>1, PushShape
<1>3. ASSUME NEW f \in Frames, NEW g \in Frames
      PROVE  <<g>> \o (<<f>> \o Tail(stack)) \in Seq(Frames)
  BY <1>2, PushShape
<1>4. top.sig \in Signals /\ top.it \in Nat \ {0} /\ top.acc \in Values
  BY <1>1, FrameUpdates
<1> QED  BY <1>1, <1>2, <1>3, <1>4 DEF Goto, GotoCall

\* The two ways a call returns.
LEMMA ReturnType ==
  ASSUME TypeOK, stack # <<>>
  PROVE  /\ \A yes \in BOOLEAN :
              ReturnAnswer(yes) => stack' \in Seq(Frames) /\ answer' \in BOOLEAN
         /\ \A v \in Values :
              ReturnValue(v) => /\ stack' \in Seq(Frames) /\ value' \in Values
                                /\ reply' \in [sig : Signals \cup {NoSignal}, val : Values]
<1>1. Tail(stack) \in Seq(Frames) /\ top.sig \in Signals
  BY TopType
<1>2. reply \in [sig : Signals \cup {NoSignal}, val : Values]
  BY DEF TypeOK
<1>3. \A v \in Values :
        [sig |-> top.sig, val |-> v] \in [sig : Signals \cup {NoSignal}, val : Values]
  BY <1>1
<1> QED  BY <1>1, <1>2, <1>3, ValueTypes DEF ReturnAnswer, ReturnValue

\* What a step of needUpdate() may change.
NeedTyped ==
  /\ stack' \in Seq(Frames) /\ answer' \in BOOLEAN
  /\ lastAsk' \in [Signals -> BOOLEAN]

\* The two ways an iteration of the loop of needUpdate() ends are well typed.
LEMMA VerdictType ==
  ASSUME TypeOK, stack # <<>>, NEW yes \in BOOLEAN
  PROVE  /\ NeedResult(yes) => NeedTyped
         /\ NeedVerdict(yes) => NeedTyped
<1>1. lastAsk \in [Signals -> BOOLEAN] /\ top.sig \in Signals
  BY TopType DEF TypeOK
<1>2. NeedResult(yes) => NeedTyped
  BY <1>1, ReturnType DEF NeedResult, NeedTyped
<1>3. [top EXCEPT !.at = "loop", !.it = @ + 1] \in Frames
  BY TopType, FrameUpdates DEF Places
<1>4. Goto([top EXCEPT !.at = "loop", !.it = @ + 1]) => stack' \in Seq(Frames)
  BY <1>3, TopType
<1>5. CASE yes = (top.sig \in AllChildren)
  <2>1. NeedVerdict(yes) => /\ Goto([top EXCEPT !.at = "loop", !.it = @ + 1])
                            /\ answer' = FALSE
                            /\ lastAsk' = lastAsk
    BY <1>5 DEF NeedVerdict
  <2>2. NeedVerdict(yes) => NeedTyped
    BY <1>1, <1>4, <2>1 DEF NeedTyped
  <2> QED  BY <1>2, <2>2
<1>6. CASE yes # (top.sig \in AllChildren)
  <2>1. NeedVerdict(yes) => NeedResult(yes)
    BY <1>6 DEF NeedVerdict
  <2> QED  BY <1>2, <2>1
<1> QED  BY <1>5, <1>6

\* Type correctness of the steps of needUpdate().
LEMMA NeedType ==
  ASSUME TypeOK, NeedEnter \/ NeedDependency \/ NeedAsked \/ NeedLoopEnds
  PROVE  TypeOK'
<1>1. stack # <<>>
  BY DEF NeedEnter, NeedDependency, NeedAsked, NeedLoopEnds, At
<1>2. lastAsk \in [Signals -> BOOLEAN] /\ answer \in BOOLEAN
  BY DEF TypeOK
<1>3. [top EXCEPT !.at = "loop"] \in Frames /\ [top EXCEPT !.at = "asked"] \in Frames
  BY <1>1, TopType, FrameUpdates DEF Places
<1> DEFINE Others == UNCHANGED <<stime, ready, deps, copy, value, clockVars, setVars, reply>>
<1>0. NeedTyped /\ Others => TypeOK'
  BY DEF TypeOK, NeedTyped, clockVars, setVars
<1> HIDE DEF Others
<1>4. CASE NeedEnter
  <2>1. \/ ReturnAnswer(TRUE) \/ ReturnAnswer(FALSE)
        \/ Goto([top EXCEPT !.at = "loop"]) /\ UNCHANGED answer
    BY <1>4 DEF NeedEnter
  <2>2. stack' \in Seq(Frames) /\ answer' \in BOOLEAN
    BY <1>1, <1>2, <1>3, <2>1, ReturnType, TopType
  <2>3. lastAsk' = lastAsk /\ Others
    BY <1>4 DEF NeedEnter, signalVars, Others
  <2> QED  BY <1>0, <1>2, <2>2, <2>3 DEF NeedTyped
<1>5. CASE NeedDependency
  <2> DEFINE d == deps[top.sig][top.it]
  <2>1. deps[top.sig] \in Seq(Signals) /\ top.it \in Nat \ {0}
    BY <1>1, TopType DEF TypeOK
  <2>2. top.it \in 1 .. Len(deps[top.sig])
    BY <1>5, <2>1, LenProperties DEF NeedDependency
  <2>3. d \in Signals
    BY <2>1, <2>2, ElementOfSeq
  <2>4. CallNeed(d) \in Frames
    BY <2>3, FrameTypes
  <2> HIDE DEF d
  <2>5. GotoCall([top EXCEPT !.at = "asked"], CallNeed(d)) => stack' \in Seq(Frames)
    BY <1>1, <1>3, <2>4, TopType
  <2>6. NeedTyped
    BY <1>1, <1>2, <1>5, <2>5, VerdictType DEF NeedDependency, NeedTyped, d
  <2> QED  BY <1>0, <1>5, <2>6 DEF NeedDependency, Others
<1>6. CASE NeedAsked
  <2>1. NeedTyped
    BY <1>1, <1>2, <1>6, VerdictType DEF NeedAsked
  <2> QED  BY <1>0, <1>6, <2>1 DEF NeedAsked, Others
<1>7. CASE NeedLoopEnds
  <2>1. NeedResult(top.sig \in AllChildren) /\ (top.sig \in AllChildren) \in BOOLEAN
    BY <1>7 DEF NeedLoopEnds
  <2>2. NeedTyped
    BY <1>1, <2>1, VerdictType
  <2> QED  BY <1>0, <1>7, <2>2 DEF NeedLoopEnds, Others
<1> QED  BY <1>4, <1>5, <1>6, <1>7

\* What a step of access() may change.
AccessTyped ==
  /\ stime' \in [Signals -> Nat]
  /\ ready' \in [Signals -> BOOLEAN] /\ lastAsk' \in [Signals -> BOOLEAN]
  /\ copy' \in [Signals -> Values]
  /\ stack' \in Seq(Frames) /\ answer' \in BOOLEAN /\ value' \in Values
  /\ reply' \in [sig : Signals \cup {NoSignal}, val : Values]

\* Type correctness of the steps of access() that call, and of those that return.
LEMMA CallType ==
  ASSUME TypeOK, AccessAsk \/ AccessUpdate \/ AccessCached \/ AccessReturns
  PROVE  TypeOK'
<1> DEFINE Others == UNCHANGED <<deps, clockVars, setVars>>
<1>0. AccessTyped /\ Others => TypeOK'
  BY DEF TypeOK, AccessTyped, clockVars, setVars
<1> HIDE DEF Others
<1>1. stack # <<>>
  BY DEF AccessAsk, AccessUpdate, AccessCached, AccessReturns, At
<1>2. /\ stime \in [Signals -> Nat]
      /\ ready \in [Signals -> BOOLEAN] /\ lastAsk \in [Signals -> BOOLEAN]
      /\ copy \in [Signals -> Values] /\ answer \in BOOLEAN /\ value \in Values
      /\ reply \in [sig : Signals \cup {NoSignal}, val : Values]
  BY DEF TypeOK
<1>3. top.sig \in Signals /\ top.acc \in Values
  BY <1>1, TopType
<1>4. CASE AccessAsk
  <2>1. [top EXCEPT !.at = "asked"] \in Frames /\ CallNeed(top.sig) \in Frames
    BY <1>1, TopType, FrameUpdates, FrameTypes DEF Places
  <2>2. stack' \in Seq(Frames)
    BY <1>1, <1>4, <2>1, TopType DEF AccessAsk
  <2> QED  BY <1>0, <1>2, <1>4, <2>2 DEF AccessAsk, AccessTyped, signalVars, Others
<1>5. CASE AccessUpdate
  <2>1. [top EXCEPT !.at = "run"] \in Frames
    BY <1>1, TopType, FrameUpdates DEF Places
  <2>2. stack' \in Seq(Frames)
    BY <1>1, <1>5, <2>1, TopType DEF AccessUpdate
  <2> QED  BY <1>0, <1>2, <1>5, <2>2 DEF AccessUpdate, AccessTyped, Others
<1>6. CASE AccessCached
  <2>1. copy[top.sig] \in Values
    BY <1>2, <1>3
  <2>2. ReturnValue(copy[top.sig])
    BY <1>6 DEF AccessCached
  <2>3. /\ stack' \in Seq(Frames) /\ value' \in Values
        /\ reply' \in [sig : Signals \cup {NoSignal}, val : Values]
    BY <1>1, <2>1, <2>2, ReturnType
  <2> QED  BY <1>0, <1>2, <1>6, <2>3 DEF AccessCached, AccessTyped, signalVars, Others
<1>7. CASE AccessReturns
  <2>1. ReturnValue(top.acc)
    BY <1>7 DEF AccessReturns
  <2>2. /\ stack' \in Seq(Frames) /\ value' \in Values
        /\ reply' \in [sig : Signals \cup {NoSignal}, val : Values]
    BY <1>1, <1>3, <2>1, ReturnType
  <2>3. ready' \in [Signals -> BOOLEAN]
    BY <1>2, <1>7 DEF AccessReturns
  <2> QED  BY <1>0, <1>2, <1>7, <2>2, <2>3 DEF AccessReturns, AccessTyped, Others
<1> QED  BY <1>4, <1>5, <1>6, <1>7

\* Type correctness of Signal::access().
LEMMA RunType ==
  ASSUME TypeOK, RunConstant \/ ReadConstant \/ RunReference \/ RunFunction
  PROVE  TypeOK'
<1> DEFINE Others == UNCHANGED <<deps, clockVars, setVars>>
<1>0. AccessTyped /\ Others => TypeOK'
  BY DEF TypeOK, AccessTyped, clockVars, setVars
<1> HIDE DEF Others
<1>1. stack # <<>>
  BY DEF RunConstant, ReadConstant, RunReference, RunFunction, At
<1>2. /\ stime \in [Signals -> Nat] /\ now \in Nat /\ version \in [Signals -> Nat]
      /\ ready \in [Signals -> BOOLEAN] /\ lastAsk \in [Signals -> BOOLEAN]
      /\ copy \in [Signals -> Values] /\ answer \in BOOLEAN /\ value \in Values
      /\ reply \in [sig : Signals \cup {NoSignal}, val : Values]
  BY DEF TypeOK
<1>3. top.sig \in Signals /\ top \in Frames
  BY <1>1, TopType
<1>4. \A x \in Places : Goto([top EXCEPT !.at = x]) => stack' \in Seq(Frames)
  BY <1>1, <1>3, TopType, FrameUpdates
<1>5. \A v \in Values :
        Goto([top EXCEPT !.at = "ran", !.acc = v]) => stack' \in Seq(Frames)
  <2>1. \A v \in Values : [top EXCEPT !.at = "ran", !.acc = v] \in Frames
    BY <1>3, FrameUpdates DEF Places
  <2> QED  BY <1>1, <2>1, TopType
<1>6. CASE RunConstant
  <2>1. stack' \in Seq(Frames)
    BY <1>4, <1>6 DEF RunConstant, Places
  <2>2. stime' \in [Signals -> Nat] /\ ready' \in [Signals -> BOOLEAN]
    BY <1>2, <1>6 DEF RunConstant
  <2> QED  BY <1>0, <1>2, <1>6, <2>1, <2>2 DEF RunConstant, AccessTyped, Others
<1>7. CASE ReadConstant
  <2>1. copy[top.sig] \in Values
    BY <1>2, <1>3
  <2>2. stack' \in Seq(Frames)
    BY <1>5, <1>7, <2>1 DEF ReadConstant
  <2> QED  BY <1>0, <1>2, <1>7, <2>2 DEF ReadConstant, AccessTyped, signalVars, Others
<1>8. CASE RunReference
  <2> DEFINE v == {<<top.sig, version[top.sig]>>}
  <2>1. v \in Values
    BY <1>2, <1>3, ValueTypes
  <2>2. SetTcopy(top.sig, v) /\ Goto([top EXCEPT !.at = "ran", !.acc = v])
    BY <1>8 DEF RunReference
  <2> HIDE DEF v
  <2>3. stack' \in Seq(Frames) /\ copy' \in [Signals -> Values]
    BY <1>2, <1>5, <2>1, <2>2 DEF SetTcopy
  <2>4. stime' \in [Signals -> Nat]
    BY <1>2, <1>8 DEF RunReference
  <2> QED  BY <1>0, <1>2, <1>8, <2>3, <2>4 DEF RunReference, AccessTyped, Others
<1>9. CASE RunFunction
  <2>1. stack' \in Seq(Frames)
    BY <1>4, <1>9 DEF RunFunction, Places
  <2>2. stime' \in [Signals -> Nat]
    BY <1>2, <1>9 DEF RunFunction
  <2> QED  BY <1>0, <1>2, <1>9, <2>1, <2>2 DEF RunFunction, AccessTyped, Others
<1> QED  BY <1>6, <1>7, <1>8, <1>9

\* Type correctness of the steps of a Tfunction.
LEMMA BodyType ==
  ASSUME TypeOK, BodyReads \/ BodyGets \/ BodyEnds \/ BodyThrows
  PROVE  TypeOK'
<1> DEFINE Others == UNCHANGED <<deps, clockVars, setVars>>
<1>0. AccessTyped /\ Others => TypeOK'
  BY DEF TypeOK, AccessTyped, clockVars, setVars
<1> HIDE DEF Others
<1>1. stack # <<>>
  BY DEF BodyReads, BodyGets, BodyEnds, BodyThrows, At
<1>2. /\ stime \in [Signals -> Nat]
      /\ ready \in [Signals -> BOOLEAN] /\ lastAsk \in [Signals -> BOOLEAN]
      /\ copy \in [Signals -> Values] /\ answer \in BOOLEAN /\ value \in Values
      /\ reply \in [sig : Signals \cup {NoSignal}, val : Values]
  BY DEF TypeOK
<1>3. top.sig \in Signals /\ top \in Frames /\ top.acc \in Values /\ top.it \in Nat \ {0}
  BY <1>1, TopType
<1>4. CASE BodyReads
  <2> DEFINE d == Inputs[top.sig][top.it]
             next == [top EXCEPT !.it = @ + 1]
  <2>1. Inputs[top.sig] \in Seq(Signals)
    BY <1>3, GraphAssumption
  <2>2. top.it \in 1 .. Len(Inputs[top.sig])
    BY <1>3, <1>4, <2>1, LenProperties DEF BodyReads
  <2>3. d \in Signals
    BY <2>1, <2>2, ElementOfSeq
  <2>4. next \in Frames
    BY <1>3, FrameUpdates
  <2>5. top.sig \in ByCopy => Goto([next EXCEPT !.acc = @ \cup copy[d]])
    BY <1>4 DEF BodyReads
  <2>6. top.sig \notin ByCopy => GotoCall([next EXCEPT !.at = "input"], CallAccess(d))
    BY <1>4 DEF BodyReads
  <2> HIDE DEF d, next
  <2>7. CallAccess(d) \in Frames /\ [next EXCEPT !.at = "input"] \in Frames
    BY <2>3, <2>4, FrameTypes, FrameUpdates DEF Places
  <2>8. next.acc \cup copy[d] \in Values
    BY <1>2, <2>3, <2>4, FrameUpdates, ValueTypes
  <2>9. [next EXCEPT !.acc = @ \cup copy[d]] \in Frames
    <3>1. [next EXCEPT !.acc = @ \cup copy[d]] = [next EXCEPT !.acc = next.acc \cup copy[d]]
      OBVIOUS
    <3> QED  BY <2>4, <2>8, <3>1, FrameUpdates
  <2>10. stack' \in Seq(Frames)
    BY <1>1, <2>5, <2>6, <2>7, <2>9, TopType
  <2> QED  BY <1>0, <1>2, <1>4, <2>10 DEF BodyReads, AccessTyped, signalVars, Others
<1>5. CASE BodyGets
  <2>1. top.acc \cup value \in Values
    BY <1>2, <1>3, ValueTypes
  <2>2. [top EXCEPT !.at = "body", !.acc = top.acc \cup value] \in Frames
    BY <1>3, <2>1, FrameUpdates DEF Places
  <2>3. Goto([top EXCEPT !.at = "body", !.acc = top.acc \cup value])
    BY <1>5 DEF BodyGets
  <2>4. stack' \in Seq(Frames)
    BY <1>1, <2>2, <2>3, TopType
  <2>5. value' \in Values
    BY <1>5, ValueTypes DEF BodyGets
  <2> QED  BY <1>0, <1>2, <1>5, <2>4, <2>5 DEF BodyGets, AccessTyped, signalVars, Others
<1>6. CASE BodyEnds
  <2>1. [top EXCEPT !.at = "ran"] \in Frames
    BY <1>3, FrameUpdates DEF Places
  <2>2. stack' \in Seq(Frames)
    BY <1>1, <1>6, <2>1, TopType DEF BodyEnds
  <2>3. copy' \in [Signals -> Values]
    BY <1>2, <1>3, <1>6 DEF BodyEnds, SetTcopy
  <2> QED  BY <1>0, <1>2, <1>6, <2>2, <2>3 DEF BodyEnds, AccessTyped, Others
<1>7. CASE BodyThrows
  <2>1. stack' \in Seq(Frames) /\ value' \in Values /\ answer' \in BOOLEAN
    BY <1>7, EmptySeq, ValueTypes DEF BodyThrows
  <2> QED  BY <1>0, <1>2, <1>7, <2>1 DEF BodyThrows, AccessTyped, signalVars, Others
<1> QED  BY <1>4, <1>5, <1>6, <1>7

\* Type correctness of the steps of the control loop and of the setters.  That
\* floor stays a natural number needs a fact about setConstant(): while it is
\* between its two steps, the source has been given a value.
TypeInv == TypeOK /\ (setting # NoSignal => version[setting] > 0)

LEMMA LoopType ==
  ASSUME TypeInv,
         \/ \E s \in Roots : Access(s) \/ AskNeedUpdate(s)
         \/ \E s \in Forced : SetReady(s)
         \/ Tick
  PROVE  TypeInv'
<1>1. /\ stack \in Seq(Frames) /\ ready \in [Signals -> BOOLEAN]
      /\ version \in [Signals -> Nat] /\ setting \in Signals \cup {NoSignal}
      /\ floor \in [Signals -> Nat] /\ now \in Nat
  BY DEF TypeInv, TypeOK
<1>2. Completed \in [Signals -> Nat]
  <2>1. \A s \in Signals : s = setting => version[s] - 1 \in Nat
    BY <1>1, GraphAssumption DEF TypeInv
  <2> QED  BY <1>1, <2>1 DEF Completed
<1>3. NoReply \in [sig : Signals \cup {NoSignal}, val : Values]
  BY ValueTypes DEF NoReply
<1>4. ASSUME NEW f \in Frames, CallFromLoop(f) PROVE TypeInv'
  <2>1. <<f>> \in Seq(Frames)
    OBVIOUS
  <2>2. stack' \in Seq(Frames) /\ floor' \in [Signals -> Nat]
    BY <1>1, <1>2, <1>4, <2>1 DEF CallFromLoop
  <2>3. reply' \in [sig : Signals \cup {NoSignal}, val : Values] /\ used' \in BOOLEAN
    BY <1>3, <1>4 DEF CallFromLoop
  <2> QED  BY <1>4, <2>2, <2>3 DEF CallFromLoop, TypeInv, TypeOK, signalVars, setVars
<1>5. CASE \E s \in Roots : Access(s) \/ AskNeedUpdate(s)
  <2>1. PICK s \in Roots : Access(s) \/ AskNeedUpdate(s)
    BY <1>5
  <2>2. s \in Signals
    BY OptionAssumption
  <2> QED  BY <1>4, <2>1, <2>2, FrameTypes DEF Access, AskNeedUpdate
<1>6. CASE \E s \in Forced : SetReady(s)
  <2>1. PICK s \in Forced : SetReady(s)
    BY <1>6
  <2>2. ready' \in [Signals -> BOOLEAN]
    BY <1>1, <2>1 DEF SetReady
  <2>3. reply' \in [sig : Signals \cup {NoSignal}, val : Values]
    BY <1>3, <2>1 DEF SetReady
  <2> QED  BY <2>1, <2>2, <2>3 DEF SetReady, TypeInv, TypeOK, callVars, clockVars, setVars
<1>7. CASE Tick
  <2>1. now' \in Nat /\ used' \in BOOLEAN
    <3>1. now' = now + 1 /\ used' = FALSE
      BY <1>7 DEF Tick
    <3>2. now' \in Nat
      BY <1>1, <3>1
    <3> QED  BY <3>1, <3>2
  <2>2. reply' \in [sig : Signals \cup {NoSignal}, val : Values]
    BY <1>3, <1>7 DEF Tick
  <2> QED  BY <1>7, <2>1, <2>2 DEF Tick, TypeInv, TypeOK, signalVars, callVars, setVars
<1> QED  BY <1>5, <1>6, <1>7

\* Type correctness of setConstant() and of the owners of references.
LEMMA SetterType ==
  ASSUME TypeInv,
         \/ \E c \in Sources : SetConstant(c) \/ WriteReferenced(c)
         \/ SetConstantReady
  PROVE  TypeInv'
<1>1. /\ ready \in [Signals -> BOOLEAN] /\ copy \in [Signals -> Values]
      /\ version \in [Signals -> Nat] /\ setting \in Signals \cup {NoSignal}
  BY DEF TypeInv, TypeOK
<1>2. ASSUME NEW c \in Sources, SetConstant(c) PROVE TypeInv'
  <2>1. c \in Signals
    BY DEF Sources
  <2>2. version' \in [Signals -> Nat] /\ version'[c] > 0
    BY <1>1, <1>2, <2>1 DEF SetConstant
  <2>3. {<<c, version[c] + 1>>} \in Values
    BY <1>1, <2>1, ValueTypes
  <2>4. copy' \in [Signals -> Values]
    BY <1>1, <1>2, <2>3 DEF SetConstant, SetTcopy
  <2>5. setting' = c
    BY <1>2 DEF SetConstant
  <2> QED  BY <1>2, <2>1, <2>2, <2>4, <2>5
           DEF SetConstant, TypeInv, TypeOK, callVars, clockVars
<1>3. ASSUME NEW c \in Sources, WriteReferenced(c) PROVE TypeInv'
  <2>1. c \in Signals
    BY DEF Sources
  <2>2. version' \in [Signals -> Nat]
    BY <1>1, <1>3, <2>1 DEF WriteReferenced
  <2>3. setting' = NoSignal
    BY <1>3 DEF WriteReferenced, MaySet
  <2> QED  BY <1>3, <2>2, <2>3
           DEF WriteReferenced, TypeInv, TypeOK, signalVars, callVars, clockVars
<1>4. CASE SetConstantReady
  <2>1. ready' \in [Signals -> BOOLEAN] /\ setting' = NoSignal
    BY <1>1, <1>4 DEF SetConstantReady
  <2> QED  BY <1>4, <2>1 DEF SetConstantReady, TypeInv, TypeOK, callVars, clockVars
<1> QED  BY <1>2, <1>3, <1>4

\* The inductive invariant: no step of Next leaves TypeInv.
LEMMA TypeAlways == Spec => []TypeInv
<1>1. Init => TypeInv
  BY InitType DEF TypeInv, Init
<1>2. TypeInv /\ [Next]_vars => TypeInv'
  <2> SUFFICES ASSUME TypeInv, [Next]_vars PROVE TypeInv'
    OBVIOUS
  <2>1. CASE Evaluate
    <3>1. TypeOK'
      BY <2>1, NeedType, CallType, RunType, BodyType DEF Evaluate, TypeInv
    <3>2. UNCHANGED setVars
      BY <2>1 DEF Evaluate, NeedEnter, NeedDependency, NeedAsked, NeedLoopEnds,
                  AccessAsk, AccessUpdate, AccessCached, RunConstant, ReadConstant,
                  RunReference, RunFunction, BodyReads, BodyGets, BodyEnds,
                  BodyThrows, AccessReturns
    <3> QED  BY <3>1, <3>2 DEF TypeInv, setVars
  <2>2. CASE UNCHANGED vars
    BY <2>2 DEF TypeInv, TypeOK, vars, signalVars, callVars, clockVars, setVars
  <2> QED  BY <2>1, <2>2, LoopType, SetterType DEF Next
<1> QED  BY <1>1, <1>2, PTL DEF Spec

\* Every reachable state of an evaluation is well typed, whatever the graph.
THEOREM TypeCorrect == Spec => []TypeOK
<1>1. TypeInv => TypeOK
  BY DEF TypeInv
<1> QED  BY <1>1, TypeAlways, PTL

----------------------------------------------------------------------------
(* No re-entrance on an acyclic graph.                                     *)

\* The signals can be ranked so that a Tfunction only reads signals of a lower
\* rank: the graph has no cycle.
IsRanking(Rank) ==
  /\ Rank \in [Signals -> Nat]
  /\ \A s \in Signals : \A k \in DOMAIN Inputs[s] : Rank[Inputs[s][k]] < Rank[s]

\* Below an access() in the stack there are only callers of access(), each of a
\* higher rank than those above it.
Ordered(Rank, st) ==
  \A i, j \in DOMAIN st :
    i < j /\ st[i].op = "access"
      => st[j].op = "access" /\ Rank[st[i].sig] < Rank[st[j].sig]

\* A return keeps the order, ...
LEMMA PopOrdered ==
  ASSUME NEW Rank, NEW st \in Seq(Frames), st # <<>>, Ordered(Rank, st)
  PROVE  Ordered(Rank, Tail(st))
<1>1. Len(st) \in Nat /\ DOMAIN st = 1 .. Len(st)
  BY LenProperties
<1>2. /\ DOMAIN Tail(st) = 1 .. Len(st) - 1
      /\ \A i \in 1 .. Len(st) - 1 : Tail(st)[i] = st[i + 1]
  BY PopShape
<1> SUFFICES ASSUME NEW i \in DOMAIN Tail(st), NEW j \in DOMAIN Tail(st), i < j,
                    Tail(st)[i].op = "access"
             PROVE  /\ Tail(st)[j].op = "access"
                    /\ Rank[Tail(st)[i].sig] < Rank[Tail(st)[j].sig]
  BY DEF Ordered
<1>3. i + 1 \in DOMAIN st /\ j + 1 \in DOMAIN st /\ i + 1 < j + 1
  BY <1>1, <1>2
<1>4. Tail(st)[i] = st[i + 1] /\ Tail(st)[j] = st[j + 1]
  BY <1>2
<1> QED  BY <1>3, <1>4 DEF Ordered

\* ... a step inside the running function does, ...
LEMMA GotoOrdered ==
  ASSUME NEW Rank, NEW st \in Seq(Frames), st # <<>>, Ordered(Rank, st),
         NEW f \in Frames, f.op = st[1].op, f.sig = st[1].sig
  PROVE  Ordered(Rank, <<f>> \o Tail(st))
<1> DEFINE g == <<f>> \o Tail(st)
<1>1. DOMAIN g = DOMAIN st /\ \A i \in DOMAIN st : g[i] = IF i = 1 THEN f ELSE st[i]
  BY GotoShape
<1>2. \A i \in DOMAIN st : g[i].op = st[i].op /\ g[i].sig = st[i].sig
  BY <1>1
<1> HIDE DEF g
<1>3. Ordered(Rank, g)
  BY <1>1, <1>2 DEF Ordered
<1> QED  BY <1>3 DEF g

\* ... and so does a call of needUpdate(), or of access() on an input.
LEMMA PushOrdered ==
  ASSUME NEW Rank, NEW st \in Seq(Frames), Ordered(Rank, st), IsRanking(Rank),
         st # <<>>, NEW f \in Frames,
         f.op = "need" \/ (st[1].op = "access" /\ Rank[f.sig] < Rank[st[1].sig])
  PROVE  Ordered(Rank, <<f>> \o st)
<1> DEFINE g == <<f>> \o st
<1>1. Len(st) \in Nat \ {0} /\ DOMAIN st = 1 .. Len(st)
  BY EmptySeq, LenProperties
<1>2. /\ DOMAIN g = 1 .. Len(st) + 1
      /\ \A i \in 1 .. Len(st) + 1 : g[i] = IF i = 1 THEN f ELSE st[i - 1]
  BY PushShape
<1> HIDE DEF g
<1> SUFFICES ASSUME NEW i \in DOMAIN g, NEW j \in DOMAIN g, i < j, g[i].op = "access"
             PROVE  g[j].op = "access" /\ Rank[g[i].sig] < Rank[g[j].sig]
  BY DEF Ordered, g
<1>3. j - 1 \in DOMAIN st /\ g[j] = st[j - 1]
  BY <1>1, <1>2
<1>4. CASE i # 1
  <2>1. i - 1 \in DOMAIN st /\ g[i] = st[i - 1] /\ i - 1 < j - 1
    BY <1>1, <1>2, <1>4
  <2> QED  BY <1>3, <2>1 DEF Ordered
<1>5. CASE i = 1
  <2>1. g[i] = f
    BY <1>1, <1>2, <1>5
  <2>2. st[1].op = "access" /\ Rank[f.sig] < Rank[st[1].sig]
    BY <2>1
  <2>3. CASE j = 2
    BY <1>3, <2>1, <2>2, <2>3
  <2>4. CASE j # 2
    <3>1. 1 \in DOMAIN st /\ 1 < j - 1
      BY <1>1, <1>2, <1>5, <2>4
    <3>2. st[j - 1].op = "access" /\ Rank[st[1].sig] < Rank[st[j - 1].sig]
      BY <1>3, <2>2, <3>1 DEF Ordered
    <3>3. /\ f.sig \in Signals /\ st[1].sig \in Signals /\ st[j - 1].sig \in Signals
      BY <1>3, <3>1, ElementOfSeq, <1>1, FrameUpdates
    <3>4. Rank[f.sig] < Rank[st[j - 1].sig]
      BY <2>2, <3>2, <3>3 DEF IsRanking
    <3> QED  BY <1>3, <2>1, <3>2, <3>4
  <2> QED  BY <2>3, <2>4
<1> QED  BY <1>4, <1>5

\* All a step of an evaluation does to the stack: it moves the running function
\* to f, perhaps calling needUpdate() of some signal or access() of an input; it
\* returns; or an exception empties the stack.
LEMMA StepShapes ==
  ASSUME TypeOK, Evaluate
  PROVE  /\ stack # <<>>
         /\ \/ \E f \in Frames :
                 /\ f.op = top.op /\ f.sig = top.sig
                 /\ \/ Goto(f)
                    \/ \E s \in Signals : GotoCall(f, CallNeed(s))
                    \/ /\ top.op = "access"
                       /\ \E k \in DOMAIN Inputs[top.sig] :
                            GotoCall(f, CallAccess(Inputs[top.sig][k]))
            \/ stack' = Tail(stack)
            \/ stack' = <<>>
<1>1. stack # <<>>
  BY DEF Evaluate, NeedEnter, NeedDependency, NeedAsked, NeedLoopEnds, AccessAsk,
         AccessUpdate, AccessCached, RunConstant, ReadConstant, RunReference,
         RunFunction, BodyReads, BodyGets, BodyEnds, BodyThrows, AccessReturns, At
<1>2. top \in Frames /\ top.sig \in Signals /\ top.it \in Nat \ {0} /\ top.acc \in Values
  BY <1>1, TopType
<1> DEFINE Stays == \E f \in Frames : f.op = top.op /\ f.sig = top.sig /\ Goto(f)
           Asks == \E f \in Frames : \E s \in Signals :
                     f.op = top.op /\ f.sig = top.sig /\ GotoCall(f, CallNeed(s))
           Reads == \E f \in Frames : \E k \in DOMAIN Inputs[top.sig] :
                      /\ f.op = top.op /\ f.sig = top.sig /\ top.op = "access"
                      /\ GotoCall(f, CallAccess(Inputs[top.sig][k]))
           Returns == stack' = Tail(stack)
<1>3. /\ \A x \in Places : /\ [top EXCEPT !.at = x] \in Frames
                           /\ [top EXCEPT !.at = x].op = top.op
                           /\ [top EXCEPT !.at = x].sig = top.sig
      /\ \A x \in Places, v \in Values :
           /\ [top EXCEPT !.at = x, !.acc = v] \in Frames
           /\ [top EXCEPT !.at = x, !.acc = v].op = top.op
           /\ [top EXCEPT !.at = x, !.acc = v].sig = top.sig
      /\ \A x \in Places : /\ [top EXCEPT !.at = x, !.it = @ + 1] \in Frames
                           /\ [top EXCEPT !.at = x, !.it = @ + 1].op = top.op
                           /\ [top EXCEPT !.at = x, !.it = @ + 1].sig = top.sig
  <2>1. top = [op |-> top.op, sig |-> top.sig, at |-> top.at, it |-> top.it, acc |-> top.acc]
    BY <1>2 DEF Frames
  <2> QED  BY <1>2, <2>1, FrameUpdates
<1>4. \A x \in Places : Goto([top EXCEPT !.at = x]) => Stays
  BY <1>3
<1>5. \A yes \in BOOLEAN : NeedVerdict(yes) \/ NeedResult(yes) => Stays \/ Returns
  <2>1. \A yes \in BOOLEAN : NeedResult(yes) => Returns
    BY DEF NeedResult, ReturnAnswer
  <2>2. \A yes \in BOOLEAN :
          NeedVerdict(yes) => \/ Goto([top EXCEPT !.at = "loop", !.it = @ + 1])
                              \/ NeedResult(yes)
    BY DEF NeedVerdict
  <2>3. Goto([top EXCEPT !.at = "loop", !.it = @ + 1]) => Stays
    BY <1>3 DEF Places
  <2> QED  BY <2>1, <2>2, <2>3
<1>6. CASE NeedEnter
  <2>1. \/ ReturnAnswer(TRUE) \/ ReturnAnswer(FALSE) \/ Goto([top EXCEPT !.at = "loop"])
    BY <1>6 DEF NeedEnter
  <2>2. Stays \/ Returns
    BY <1>4, <2>1 DEF ReturnAnswer, Places
  <2> QED  BY <1>1, <2>2
<1>7. CASE NeedDependency
  <2>1. deps[top.sig] \in Seq(Signals) /\ top.it \in 1 .. Len(deps[top.sig])
    <3>1. deps[top.sig] \in Seq(Signals)
      BY <1>2 DEF TypeOK
    <3> QED  BY <1>2, <1>7, <3>1, LenProperties DEF NeedDependency
  <2>2. deps[top.sig][top.it] \in Signals
    BY <2>1, ElementOfSeq
  <2>3. \/ NeedVerdict(TRUE)
        \/ GotoCall([top EXCEPT !.at = "asked"], CallNeed(deps[top.sig][top.it]))
    BY <1>7 DEF NeedDependency
  <2>4. Stays \/ Returns \/ Asks
    BY <1>3, <1>5, <2>2, <2>3 DEF Places
  <2> QED  BY <1>1, <2>4
<1>8. CASE NeedAsked \/ NeedLoopEnds
  <2>1. NeedAsked => NeedVerdict(answer) /\ answer \in BOOLEAN
    BY DEF NeedAsked, TypeOK
  <2>2. NeedLoopEnds => Returns
    BY DEF NeedLoopEnds, NeedResult, ReturnAnswer
  <2>3. Stays \/ Returns
    BY <1>5, <1>8, <2>1, <2>2
  <2> QED  BY <1>1, <2>3
<1>9. CASE AccessAsk
  <2>1. Asks
    BY <1>2, <1>3, <1>9 DEF AccessAsk, Places
  <2> QED  BY <1>1, <2>1
<1>10. CASE AccessUpdate \/ RunConstant \/ RunFunction \/ BodyEnds
  <2>1. \E x \in Places : Goto([top EXCEPT !.at = x])
    BY <1>10 DEF AccessUpdate, RunConstant, RunFunction, BodyEnds, Places
  <2>2. Stays
    BY <1>4, <2>1
  <2> QED  BY <1>1, <2>2
<1>11. CASE ReadConstant \/ RunReference \/ BodyGets
  <2>1. \E x \in Places, v \in Values : Goto([top EXCEPT !.at = x, !.acc = v])
    <3>1. /\ copy[top.sig] \in Values /\ {<<top.sig, version[top.sig]>>} \in Values
          /\ top.acc \cup value \in Values
      BY <1>2, ValueTypes DEF TypeOK
    <3>2. BodyGets => Goto([top EXCEPT !.at = "body", !.acc = top.acc \cup value])
      BY DEF BodyGets
    <3> QED  BY <1>11, <3>1, <3>2 DEF ReadConstant, RunReference, Places
  <2>2. Stays
    BY <1>3, <2>1
  <2> QED  BY <1>1, <2>2
<1>12. CASE BodyReads
  <2> DEFINE d == Inputs[top.sig][top.it]
             next == [top EXCEPT !.it = @ + 1]
  <2>1. Inputs[top.sig] \in Seq(Signals) /\ top.it \in DOMAIN Inputs[top.sig]
    <3>1. Inputs[top.sig] \in Seq(Signals)
      BY <1>2, GraphAssumption
    <3> QED  BY <1>2, <1>12, <3>1, LenProperties DEF BodyReads
  <2>2. d \in Signals
    BY <2>1, ElementOfSeq, LenProperties
  <2>3. next \in Frames /\ next.op = top.op /\ next.sig = top.sig
    <3>1. top = [op |-> top.op, sig |-> top.sig, at |-> top.at, it |-> top.it,
                 acc |-> top.acc]
      BY <1>2 DEF Frames
    <3> QED  BY <1>2, <3>1, FrameUpdates
  <2>4. top.op = "access"
    BY <1>12 DEF BodyReads, At
  <2>5. \/ Goto([next EXCEPT !.acc = next.acc \cup copy[d]])
        \/ GotoCall([next EXCEPT !.at = "input"], CallAccess(d))
    BY <1>12 DEF BodyReads
  <2> HIDE DEF d, next
  <2>6. next.acc \cup copy[d] \in Values
    BY <2>2, <2>3, FrameUpdates, ValueTypes DEF TypeOK
  <2>7. /\ [next EXCEPT !.at = "input"] \in Frames
        /\ [next EXCEPT !.at = "input"].op = top.op
        /\ [next EXCEPT !.at = "input"].sig = top.sig
        /\ [next EXCEPT !.acc = next.acc \cup copy[d]] \in Frames
        /\ [next EXCEPT !.acc = next.acc \cup copy[d]].op = top.op
        /\ [next EXCEPT !.acc = next.acc \cup copy[d]].sig = top.sig
    <3>1. next = [op |-> next.op, sig |-> next.sig, at |-> next.at, it |-> next.it,
                  acc |-> next.acc]
      BY <2>3 DEF Frames
    <3> QED  BY <2>3, <2>6, <3>1, FrameUpdates DEF Places
  <2>8. Stays \/ Reads
    BY <2>1, <2>4, <2>5, <2>7 DEF d
  <2> QED  BY <1>1, <2>8
<1>13. CASE BodyThrows
  BY <1>1, <1>13 DEF BodyThrows
<1>14. CASE AccessCached \/ AccessReturns
  BY <1>1, <1>14 DEF AccessCached, AccessReturns, ReturnValue
<1> QED  BY <1>6, <1>7, <1>8, <1>9, <1>10, <1>11, <1>12, <1>13, <1>14 DEF Evaluate

\* Every step keeps the stack ordered: the calls of an evaluation go down the
\* graph, and no other step touches a stack that is not empty.
LEMMA OrderStep ==
  ASSUME NEW Rank, IsRanking(Rank), TypeOK, Ordered(Rank, stack), [Next]_vars
  PROVE  Ordered(Rank, stack')
<1>1. stack \in Seq(Frames)
  BY DEF TypeOK
<1>2. CASE Evaluate
  <2>1. stack # <<>> /\ top = stack[1]
    BY <1>1, <1>2, StepShapes, PopShape DEF top
  <2>2. CASE stack' = Tail(stack)
    BY <1>1, <2>1, <2>2, PopOrdered
  <2>3. CASE stack' = <<>>
    BY <2>3 DEF Ordered
  <2>4. ASSUME NEW f \in Frames, f.op = top.op, f.sig = top.sig
        PROVE  /\ <<f>> \o Tail(stack) \in Seq(Frames)
               /\ <<f>> \o Tail(stack) # <<>>
               /\ (<<f>> \o Tail(stack))[1] = f
               /\ Ordered(Rank, <<f>> \o Tail(stack))
    <3>1. Ordered(Rank, <<f>> \o Tail(stack))
      BY <1>1, <2>1, <2>4, GotoOrdered
    <3> QED  BY <1>1, <2>1, <3>1, GotoShape, PopShape
  <2>5. ASSUME NEW f \in Frames, f.op = top.op, f.sig = top.sig, Goto(f)
        PROVE  Ordered(Rank, stack')
    BY <2>4, <2>5 DEF Goto
  <2>6. ASSUME NEW f \in Frames, f.op = top.op, f.sig = top.sig,
               NEW s \in Signals, GotoCall(f, CallNeed(s))
        PROVE  Ordered(Rank, stack')
    <3>1. CallNeed(s) \in Frames /\ CallNeed(s).op = "need"
      BY FrameTypes DEF CallNeed, Frame
    <3> QED  BY <2>4, <2>6, <3>1, PushOrdered DEF GotoCall
  <2>7. ASSUME NEW f \in Frames, f.op = top.op, f.sig = top.sig, top.op = "access",
               NEW k \in DOMAIN Inputs[top.sig],
               GotoCall(f, CallAccess(Inputs[top.sig][k]))
        PROVE  Ordered(Rank, stack')
    <3> DEFINE d == Inputs[top.sig][k]
    <3>1. top.sig \in Signals /\ Inputs[top.sig] \in Seq(Signals)
      BY <2>1, TopType, GraphAssumption
    <3>2. d \in Signals
      BY <2>7, <3>1, ElementOfSeq, LenProperties
    <3>3. Rank[d] < Rank[top.sig]
      BY <2>7, <3>1 DEF IsRanking
    <3>4. CallAccess(d) \in Frames /\ CallAccess(d).sig = d
      BY <3>2, FrameTypes DEF CallAccess, Frame
    <3>5. GotoCall(f, CallAccess(d))
      BY <2>7
    <3> HIDE DEF d
    <3>6. stack' = <<CallAccess(d)>> \o (<<f>> \o Tail(stack))
      BY <3>5 DEF GotoCall
    <3>7. Rank[CallAccess(d).sig] < Rank[f.sig]
      BY <2>7, <3>3, <3>4
    <3> QED  BY <2>4, <2>7, <3>4, <3>6, <3>7, PushOrdered
  <2> QED  BY <1>2, <2>2, <2>3, <2>5, <2>6, <2>7, StepShapes
<1>3. CASE \E s \in Roots : Access(s) \/ AskNeedUpdate(s)
  <2>1. PICK f : stack' = <<f>>
    BY <1>3 DEF Access, AskNeedUpdate, CallFromLoop
  <2>2. DOMAIN stack' = {1}
    BY <2>1
  <2> QED  BY <2>2 DEF Ordered
<1>4. CASE \/ \E s \in Forced : SetReady(s)
           \/ Tick \/ SetConstantReady \/ UNCHANGED vars
           \/ \E c \in Sources : SetConstant(c) \/ WriteReferenced(c)
  <2>1. stack' = stack
    BY <1>4 DEF SetReady, Tick, SetConstant, SetConstantReady, WriteReferenced,
                callVars, vars
  <2> QED  BY <2>1
<1> QED  BY <1>2, <1>3, <1>4 DEF Next

\* On an acyclic graph, whatever is set, forced or thrown meanwhile, a Tfunction
\* is never called for a signal whose Tfunction is already running.
THEOREM NeverReentered ==
  ASSUME NEW Rank, IsRanking(Rank)
  PROVE  Spec => []NoReentry
<1>1. Init => Ordered(Rank, stack)
  BY DEF Init, Ordered
<1>2. Ordered(Rank, stack) /\ TypeOK /\ [Next]_vars => Ordered(Rank, stack)'
  BY OrderStep
<1>3. TypeOK /\ Ordered(Rank, stack) => NoReentry
  <2> SUFFICES ASSUME TypeOK, Ordered(Rank, stack),
                      NEW i \in DOMAIN stack, NEW j \in DOMAIN stack,
                      stack[i].op = "access", stack[j].op = "access",
                      stack[i].sig = stack[j].sig
               PROVE  i = j
    BY DEF NoReentry
  <2>1. i \in Nat /\ j \in Nat /\ stack[i] \in Frames
    BY LenProperties, ElementOfSeq DEF TypeOK
  <2>2. Rank[stack[i].sig] \in Nat
    BY <2>1, FrameUpdates DEF IsRanking
  <2>3. ~ (i < j) /\ ~ (j < i)
    BY <2>2 DEF Ordered
  <2> QED  BY <2>1, <2>3
<1> QED  BY <1>1, <1>2, <1>3, TypeCorrect, PTL DEF Spec

----------------------------------------------------------------------------
(* On-demand evaluation misses no new value.                               *)

\* The graph has no cycle, of inputs or of dependencies.
Ranks(Rank) ==
  /\ IsRanking(Rank)
  /\ \A s \in Signals : \A k \in DOMAIN DepArgs[s] : Rank[DepArgs[s][k]] < Rank[s]

----------------------------------------------------------------------------
(* The graph.                                                              *)

\* A source is below itself only, ...
LEMMA BelowSource ==
  ASSUME Watchful, NEW c \in Sources
  PROVE  Below(c) = {c}
<1>1. c \in Signals /\ Inputs[c] = <<>> /\ Range(Inputs[c]) = {}
  BY DEF Watchful, Sources, Range
<1>2. ASSUME NEW d \in Below(c) PROVE d = c
  <2>1. {c} \in SUBSET Signals /\ c \in {c} /\ \A x \in {c} : Range(Inputs[x]) \subseteq {c}
    BY <1>1
  <2>2. d \in {c}
    BY <2>1, <1>2 DEF Below
  <2> QED  BY <2>2
<1>3. c \in Below(c)
  BY DEF Below
<1> QED  BY <1>2, <1>3

\* ... and what is below a function is below one of its inputs.
LEMMA BelowFunction ==
  ASSUME NEW s \in Signals, Type[s] = "FUNCTION"
  PROVE  Below(s) = UNION {Below(d) : d \in Range(Inputs[s])}
<1> DEFINE Closed(X) == \A x \in X : Range(Inputs[x]) \subseteq X
<1>1. ASSUME NEW d \in Range(Inputs[s]), NEW c \in Below(d) PROVE c \in Below(s)
  BY <1>1 DEF Below
<1>2. ASSUME NEW c \in Below(s), \A d \in Range(Inputs[s]) : c \notin Below(d) PROVE FALSE
  <2>1. c \in Sources /\ c # s
    BY <1>2 DEF Below, Sources
  <2> DEFINE Fam == {X \in SUBSET Signals : Closed(X) /\ c \notin X}
             Y == {s} \cup UNION Fam
  <2>2. \A d \in Range(Inputs[s]) : d \in UNION Fam
    BY <1>2, <2>1 DEF Below
  <2>3. Closed(UNION Fam)
    OBVIOUS
  <2>4. Y \in SUBSET Signals /\ s \in Y /\ Closed(Y) /\ c \notin Y
    <3>1. Range(Inputs[s]) \subseteq Y
      BY <2>2
    <3>2. \A x \in UNION Fam : Range(Inputs[x]) \subseteq Y
      BY <2>3
    <3> QED  BY <2>1, <3>1, <3>2
  <2> HIDE DEF Y, Fam
  <2> QED  BY <1>2, <2>4 DEF Below
<1> QED  BY <1>1, <1>2

\* The result of a source is its version, ...
LEMMA CurrentSource ==
  ASSUME Watchful, NEW c \in Sources
  PROVE  Current(c) = {<<c, version[c]>>}
BY BelowSource DEF Current

\* ... that of a function is made from those of its inputs.
LEMMA CurrentFunction ==
  ASSUME NEW s \in Signals, Type[s] = "FUNCTION"
  PROVE  Current(s) = UNION {Current(d) : d \in Range(Inputs[s])}
<1>1. Below(s) = UNION {Below(d) : d \in Range(Inputs[s])}
  BY BelowFunction
<1> QED  BY <1>1 DEF Current

\* The sequences of the graph, and the list that addDependency() makes.
LEMMA ListsOf ==
  ASSUME NEW s \in Signals, deps = [z \in Signals |-> Reverse(DepArgs[z])]
  PROVE  /\ Inputs[s] \in Seq(Signals) /\ DOMAIN Inputs[s] = 1 .. Len(Inputs[s])
         /\ Len(Inputs[s]) \in Nat
         /\ \A k \in DOMAIN Inputs[s] : Inputs[s][k] \in Signals
         /\ \A d \in Range(Inputs[s]) :
              d \in Signals /\ \E k \in DOMAIN Inputs[s] : Inputs[s][k] = d
         /\ \A k \in DOMAIN Inputs[s] : Inputs[s][k] \in Range(Inputs[s])
         /\ DOMAIN deps[s] = 1 .. Len(deps[s]) /\ Len(deps[s]) \in Nat
         /\ \A k \in DOMAIN deps[s] :
              /\ deps[s][k] \in Signals
              /\ \E j \in DOMAIN DepArgs[s] : deps[s][k] = DepArgs[s][j]
         /\ \A d \in Range(DepArgs[s]) : \E k \in DOMAIN deps[s] : deps[s][k] = d
<1>1. /\ Inputs[s] \in Seq(Signals) /\ DOMAIN Inputs[s] = 1 .. Len(Inputs[s])
      /\ Len(Inputs[s]) \in Nat /\ \A k \in DOMAIN Inputs[s] : Inputs[s][k] \in Signals
  BY GraphAssumption, LenProperties, ElementOfSeq
<1>2. /\ DepArgs[s] \in Seq(Signals) /\ DOMAIN DepArgs[s] = 1 .. Len(DepArgs[s])
      /\ Len(DepArgs[s]) \in Nat /\ \A k \in DOMAIN DepArgs[s] : DepArgs[s][k] \in Signals
  BY GraphAssumption, LenProperties, ElementOfSeq
<1> DEFINE n == Len(DepArgs[s])
<1>3. deps[s] = [i \in 1 .. n |-> DepArgs[s][n - i + 1]]
  BY DEF Reverse
<1> HIDE DEF n
<1>4. n = Len(DepArgs[s])
  BY DEF n
<1>5. DOMAIN deps[s] = 1 .. n /\ Len(deps[s]) = n
  BY <1>2, <1>3, <1>4
<1>6. ASSUME NEW k \in 1 .. n
      PROVE  n - k + 1 \in 1 .. n /\ deps[s][k] = DepArgs[s][n - k + 1]
                                  /\ deps[s][n - k + 1] = DepArgs[s][k]
  <2>1. n - k + 1 \in 1 .. n /\ n - (n - k + 1) + 1 = k
    BY <1>2, <1>4
  <2> QED  BY <1>3, <2>1
<1>7. \A d \in Range(DepArgs[s]) : \E k \in DOMAIN deps[s] : deps[s][k] = d
  BY <1>2, <1>4, <1>5, <1>6 DEF Range
<1>8. \A k \in DOMAIN deps[s] : /\ deps[s][k] \in Signals
                               /\ \E j \in DOMAIN DepArgs[s] : deps[s][k] = DepArgs[s][j]
  BY <1>2, <1>4, <1>5, <1>6
<1> QED  BY <1>1, <1>2, <1>4, <1>5, <1>7, <1>8 DEF Range

LEMMA Lists ==
  ASSUME NEW s \in Signals, ClockInv
  PROVE  /\ Inputs[s] \in Seq(Signals) /\ DOMAIN Inputs[s] = 1 .. Len(Inputs[s])
         /\ Len(Inputs[s]) \in Nat
         /\ \A k \in DOMAIN Inputs[s] : Inputs[s][k] \in Signals
         /\ \A d \in Range(Inputs[s]) :
              d \in Signals /\ \E k \in DOMAIN Inputs[s] : Inputs[s][k] = d
         /\ \A k \in DOMAIN Inputs[s] : Inputs[s][k] \in Range(Inputs[s])
         /\ DOMAIN deps[s] = 1 .. Len(deps[s]) /\ Len(deps[s]) \in Nat
         /\ \A k \in DOMAIN deps[s] :
              /\ deps[s][k] \in Signals
              /\ \E j \in DOMAIN DepArgs[s] : deps[s][k] = DepArgs[s][j]
         /\ \A d \in Range(DepArgs[s]) : \E k \in DOMAIN deps[s] : deps[s][k] = d
BY ListsOf DEF ClockInv

----------------------------------------------------------------------------
(* The stack.                                                              *)

\* Calls go down the graph, but for the test that access() begins with.
Descends(Rank, st) ==
  \A i, j \in DOMAIN st : i < j =>
    \/ Rank[st[i].sig] < Rank[st[j].sig]
    \/ st[j].op = "access" /\ st[j].at = "asked" /\ st[i].sig = st[j].sig

\* The calls that wait for another one.
Pending(g) == \E i \in DOMAIN stack : i # 1 /\ stack[i] = g

\* The stack and its indices.
LEMMA StackShape ==
  ASSUME TypeOK, stack # <<>>
  PROVE  /\ stack \in Seq(Frames) /\ Len(stack) \in Nat \ {0}
         /\ DOMAIN stack = 1 .. Len(stack) /\ 1 \in DOMAIN stack
         /\ top = stack[1] /\ top \in Frames
         /\ \A i \in DOMAIN stack : stack[i] \in Frames
         /\ Tail(stack) \in Seq(Frames)
         /\ DOMAIN Tail(stack) = 1 .. Len(stack) - 1
         /\ \A i \in DOMAIN Tail(stack) : Tail(stack)[i] = stack[i + 1]
<1>1. stack \in Seq(Frames)
  BY DEF TypeOK
<1> QED  BY <1>1, PopShape, EmptySeq, LenProperties, ElementOfSeq DEF top

\* The frames after a step inside the running function, ...
LEMMA GotoFrames ==
  ASSUME TypeOK, stack # <<>>, NEW f \in Frames, Goto(f)
  PROVE  /\ stack' # <<>> /\ DOMAIN stack' = DOMAIN stack /\ stack'[1] = f
         /\ \A i \in DOMAIN stack : i # 1 => stack'[i] = stack[i]
BY StackShape, GotoShape DEF Goto

\* ... after a call, ...
LEMMA CallFrames ==
  ASSUME TypeOK, stack # <<>>, NEW f \in Frames, NEW c \in Frames, GotoCall(f, c)
  PROVE  /\ stack' # <<>> /\ DOMAIN stack' = 1 .. Len(stack) + 1
         /\ stack'[1] = c /\ stack'[2] = f
         /\ \A i \in DOMAIN stack : i # 1 => stack'[i + 1] = stack[i]
<1> DEFINE g == <<f>> \o Tail(stack)
<1>1. /\ g \in Seq(Frames) /\ g # <<>> /\ DOMAIN g = DOMAIN stack /\ g[1] = f
      /\ \A i \in DOMAIN stack : i # 1 => g[i] = stack[i]
  BY StackShape, GotoShape
<1>2. stack' = <<c>> \o g
  BY DEF GotoCall
<1> HIDE DEF g
<1>3. Len(g) = Len(stack)
  BY <1>1, StackShape, LenProperties
<1>4. /\ <<c>> \o g \in Seq(Frames) /\ DOMAIN (<<c>> \o g) = 1 .. Len(stack) + 1
      /\ \A i \in 1 .. Len(stack) + 1 : (<<c>> \o g)[i] = IF i = 1 THEN c ELSE g[i - 1]
  BY <1>1, <1>3, PushShape
<1>5. \A i \in DOMAIN stack : i + 1 \in 1 .. Len(stack) + 1 /\ i + 1 # 1 /\ (i + 1) - 1 = i
  BY StackShape
<1>6. 1 \in 1 .. Len(stack) + 1 /\ 2 \in 1 .. Len(stack) + 1
  BY StackShape
<1>7. stack' # <<>>
  BY <1>2, <1>4, <1>6
<1>8. stack'[1] = c /\ stack'[2] = g[1]
  <2>1. 2 - 1 = 1
    OBVIOUS
  <2> QED  BY <1>2, <1>4, <1>6, <2>1
<1>9. \A i \in DOMAIN stack : stack'[i + 1] = g[i]
  BY <1>2, <1>4, <1>5
<1> QED  BY <1>1, <1>2, <1>4, <1>7, <1>8, <1>9

\* ... and after a return.
LEMMA ReturnFrames ==
  ASSUME TypeOK, stack # <<>>, stack' = Tail(stack)
  PROVE  /\ DOMAIN stack' = 1 .. Len(stack) - 1
         /\ \A i \in DOMAIN stack' : i + 1 \in DOMAIN stack /\ stack'[i] = stack[i + 1]
         /\ outermost <=> stack' = <<>>
         /\ stack' # <<>> => 1 \in DOMAIN stack' /\ 2 \in DOMAIN stack
<1>1. DOMAIN stack' = 1 .. Len(stack) - 1
      /\ \A i \in DOMAIN stack' : i + 1 \in DOMAIN stack /\ stack'[i] = stack[i + 1]
  BY StackShape
<1>2. stack' # <<>> => 1 \in DOMAIN stack'
  BY StackShape, EmptySeq, LenProperties
<1>3. 1 \in DOMAIN stack' => 2 \in DOMAIN stack
  BY <1>1
<1> QED  BY <1>1, <1>2, <1>3 DEF outermost

\* Each waiting call has made the one above it: after a step inside the running
\* function, after a call and after a return.
Callers(st) == \A i \in DOMAIN st : i # 1 => Calls(st[i], st[i - 1])

LEMMA CallersGoes ==
  ASSUME TypeOK, Callers(stack), stack # <<>>, deps' = deps,
         NEW f \in Frames, f.op = top.op, f.sig = top.sig, Goto(f)
  PROVE  Callers(stack)'
<1>1. /\ stack' # <<>> /\ DOMAIN stack' = DOMAIN stack /\ stack'[1] = f
      /\ \A i \in DOMAIN stack : i # 1 => stack'[i] = stack[i]
  BY GotoFrames
<1>2. /\ top = stack[1] /\ \A i \in DOMAIN stack : stack[i] \in Frames
      /\ DOMAIN stack = 1 .. Len(stack) /\ Len(stack) \in Nat
  BY StackShape
<1>3. ASSUME NEW i \in DOMAIN stack, i # 1 PROVE Calls(stack[i], stack[i - 1])'
  <2>1. Calls(stack[i], stack[i - 1]) /\ i - 1 \in DOMAIN stack
    BY <1>2, <1>3 DEF Callers
  <2>2. /\ stack'[i] = stack[i]
        /\ stack'[i - 1].op = stack[i - 1].op /\ stack'[i - 1].sig = stack[i - 1].sig
    BY <1>1, <1>2, <1>3, <2>1
  <2> QED  BY <2>1, <2>2 DEF Calls
<1> QED  BY <1>1, <1>3 DEF Callers

LEMMA CallersCalls ==
  ASSUME TypeOK, Callers(stack), stack # <<>>, deps' = deps,
         NEW f \in Frames, NEW c \in Frames, f.op = top.op, f.sig = top.sig,
         GotoCall(f, c), Calls(f, c)
  PROVE  Callers(stack)'
<1>1. /\ stack' # <<>> /\ DOMAIN stack' = 1 .. Len(stack) + 1
      /\ stack'[1] = c /\ stack'[2] = f
      /\ \A i \in DOMAIN stack : i # 1 => stack'[i + 1] = stack[i]
  BY CallFrames
<1>2. /\ top = stack[1] /\ \A i \in DOMAIN stack : stack[i] \in Frames
      /\ DOMAIN stack = 1 .. Len(stack) /\ Len(stack) \in Nat
  BY StackShape
<1>3. ASSUME NEW j \in DOMAIN stack'
      PROVE  j = 1 \/ j = 2 \/ \E i \in DOMAIN stack : i # 1 /\ j = i + 1
  <2>1. j = 1 \/ j = 2 \/ (j - 1 \in DOMAIN stack /\ j - 1 # 1 /\ j = (j - 1) + 1)
    BY <1>1, <1>2
  <2> QED  BY <2>1
<1>4. ASSUME NEW j \in DOMAIN stack', j # 1 PROVE Calls(stack[j], stack[j - 1])'
  <2>1. CASE j = 2
    <3>1. stack'[j] = f /\ stack'[j - 1] = c
      BY <1>1, <2>1
    <3> QED  BY <3>1 DEF Calls
  <2>2. CASE j # 2
    <3>1. PICK i \in DOMAIN stack : i # 1 /\ j = i + 1
      BY <1>3, <1>4, <2>2
    <3>2. Calls(stack[i], stack[i - 1]) /\ i - 1 \in DOMAIN stack /\ (i - 1) + 1 = j - 1
      BY <1>2, <3>1 DEF Callers
    <3>3. /\ stack'[j] = stack[i]
          /\ stack'[j - 1].op = stack[i - 1].op /\ stack'[j - 1].sig = stack[i - 1].sig
      BY <1>1, <1>2, <3>1, <3>2
    <3> QED  BY <3>2, <3>3 DEF Calls
  <2> QED  BY <2>1, <2>2
<1> QED  BY <1>4 DEF Callers

LEMMA CallersReturns ==
  ASSUME TypeOK, Callers(stack), stack # <<>>, deps' = deps, stack' = Tail(stack)
  PROVE  Callers(stack)'
<1>1. /\ DOMAIN stack' = 1 .. Len(stack) - 1
      /\ \A i \in DOMAIN stack' : i + 1 \in DOMAIN stack /\ stack'[i] = stack[i + 1]
      /\ outermost <=> stack' = <<>>
      /\ stack' # <<>> => 1 \in DOMAIN stack' /\ 2 \in DOMAIN stack
  BY ReturnFrames
<1>2. /\ top = stack[1] /\ \A i \in DOMAIN stack : stack[i] \in Frames
      /\ DOMAIN stack = 1 .. Len(stack) /\ Len(stack) \in Nat
  BY StackShape
<1>3. ASSUME NEW i \in DOMAIN stack', i # 1 PROVE Calls(stack[i], stack[i - 1])'
  <2>1. i + 1 \in DOMAIN stack /\ i + 1 # 1 /\ stack'[i] = stack[i + 1]
    BY <1>1
  <2>2. i - 1 \in DOMAIN stack' /\ stack'[i - 1] = stack[i] /\ (i + 1) - 1 = i
    <3>1. i - 1 \in DOMAIN stack' /\ (i - 1) + 1 = i
      BY <1>1, <1>2, <1>3
    <3> QED  BY <1>1, <1>2, <3>1
  <2>3. Calls(stack[i + 1], stack[i])
    BY <2>1, <2>2 DEF Callers
  <2> QED  BY <2>1, <2>2, <2>3 DEF Calls
<1> QED  BY <1>3 DEF Callers

\* The invariant of the stack after each of them: what the waiting calls know must
\* stay true, and what the moved ones know must be.
LEMMA StackGoes ==
  ASSUME TypeOK, StackInv, stack # <<>>, deps' = deps,
         NEW f \in Frames, f.op = top.op, f.sig = top.sig, Goto(f),
         FrameOK(f)', ToldOK(f)',
         \A g \in Frames : Pending(g) /\ FrameOK(g) => FrameOK(g)'
  PROVE  StackInv'
<1>1. /\ stack' # <<>> /\ DOMAIN stack' = DOMAIN stack /\ stack'[1] = f
      /\ \A i \in DOMAIN stack : i # 1 => stack'[i] = stack[i]
  BY GotoFrames
<1>2. /\ top = stack[1] /\ \A i \in DOMAIN stack : stack[i] \in Frames
      /\ DOMAIN stack = 1 .. Len(stack) /\ Len(stack) \in Nat
  BY StackShape
<1>3. ASSUME NEW i \in DOMAIN stack PROVE FrameOK(stack[i])'
  <2>1. CASE i = 1
    BY <1>1, <2>1
  <2>2. CASE i # 1
    <3>1. Pending(stack[i]) /\ FrameOK(stack[i]) /\ stack[i] \in Frames
      BY <1>2, <2>2 DEF Pending, StackInv
    <3> QED  BY <1>1, <2>2, <3>1
  <2> QED  BY <2>1, <2>2
<1>4. Callers(stack)'
  BY CallersGoes DEF StackInv, Callers
<1>5. ToldOK(stack[1])'
  BY <1>1
<1> QED  BY <1>1, <1>3, <1>4, <1>5 DEF StackInv, Callers

LEMMA StackCalls ==
  ASSUME TypeOK, StackInv, stack # <<>>, deps' = deps,
         NEW f \in Frames, NEW c \in Frames,
         f.op = top.op, f.sig = top.sig, GotoCall(f, c),
         FrameOK(f)', FrameOK(c)', Calls(f, c), c.at \notin {"asked", "input"},
         \A g \in Frames : Pending(g) /\ FrameOK(g) => FrameOK(g)'
  PROVE  StackInv'
<1>1. /\ stack' # <<>> /\ DOMAIN stack' = 1 .. Len(stack) + 1
      /\ stack'[1] = c /\ stack'[2] = f
      /\ \A i \in DOMAIN stack : i # 1 => stack'[i + 1] = stack[i]
  BY CallFrames
<1>2. /\ top = stack[1] /\ \A i \in DOMAIN stack : stack[i] \in Frames
      /\ DOMAIN stack = 1 .. Len(stack) /\ Len(stack) \in Nat
  BY StackShape
<1>3. ASSUME NEW j \in DOMAIN stack'
      PROVE  j = 1 \/ j = 2 \/ \E i \in DOMAIN stack : i # 1 /\ j = i + 1
  <2>1. j = 1 \/ j = 2 \/ (j - 1 \in DOMAIN stack /\ j - 1 # 1 /\ j = (j - 1) + 1)
    BY <1>1, <1>2
  <2> QED  BY <2>1
<1>4. ASSUME NEW i \in DOMAIN stack, i # 1 PROVE FrameOK(stack[i + 1])'
  <2>1. Pending(stack[i]) /\ FrameOK(stack[i]) /\ stack[i] \in Frames
    BY <1>2, <1>4 DEF Pending, StackInv
  <2>2. stack'[i + 1] = stack[i]
    BY <1>1, <1>4
  <2> QED  BY <2>1, <2>2
<1>5. ASSUME NEW j \in DOMAIN stack' PROVE FrameOK(stack[j])'
  <2>1. FrameOK(stack[1])' /\ FrameOK(stack[2])'
    BY <1>1
  <2> QED  BY <1>3, <1>4, <2>1
<1>6. Callers(stack)'
  BY CallersCalls DEF StackInv, Callers
<1>7. ToldOK(c)'
  BY DEF ToldOK
<1> QED  BY <1>1, <1>5, <1>6, <1>7 DEF StackInv, Callers

LEMMA StackReturns ==
  ASSUME TypeOK, StackInv, stack # <<>>, deps' = deps, stack' = Tail(stack),
         \A g \in Frames : Pending(g) /\ FrameOK(g) => FrameOK(g)',
         \A g \in Frames : ~outermost /\ Pending(g) /\ FrameOK(g) /\ Calls(g, top) => ToldOK(g)'
  PROVE  StackInv'
<1>1. /\ DOMAIN stack' = 1 .. Len(stack) - 1
      /\ \A i \in DOMAIN stack' : i + 1 \in DOMAIN stack /\ stack'[i] = stack[i + 1]
      /\ outermost <=> stack' = <<>>
      /\ stack' # <<>> => 1 \in DOMAIN stack' /\ 2 \in DOMAIN stack
  BY ReturnFrames
<1>2. /\ top = stack[1] /\ \A i \in DOMAIN stack : stack[i] \in Frames
      /\ DOMAIN stack = 1 .. Len(stack) /\ Len(stack) \in Nat
  BY StackShape
<1>3. ASSUME NEW i \in DOMAIN stack' PROVE FrameOK(stack[i])'
  <2>1. i + 1 \in DOMAIN stack /\ i + 1 # 1 /\ stack'[i] = stack[i + 1]
    BY <1>1
  <2>2. Pending(stack[i + 1]) /\ FrameOK(stack[i + 1]) /\ stack[i + 1] \in Frames
    BY <1>2, <2>1 DEF Pending, StackInv
  <2> QED  BY <2>1, <2>2
<1>4. Callers(stack)'
  BY CallersReturns DEF StackInv, Callers
<1>5. ASSUME stack' # <<>> PROVE ToldOK(stack[1])'
  <2>1. 2 \in DOMAIN stack /\ 2 # 1 /\ stack'[1] = stack[2] /\ 2 - 1 = 1
    BY <1>1, <1>5
  <2>2. /\ Pending(stack[2]) /\ FrameOK(stack[2]) /\ stack[2] \in Frames
        /\ Calls(stack[2], stack[1])
    BY <1>2, <2>1 DEF Pending, StackInv
  <2> QED  BY <1>1, <1>2, <1>5, <2>1, <2>2
<1> QED  BY <1>3, <1>4, <1>5 DEF StackInv, Callers

LEMMA StackBegins ==
  ASSUME NEW c \in Frames, stack' = <<c>>, FrameOK(c)', c.at \notin {"asked", "input"}
  PROVE  StackInv'
<1>1. DOMAIN stack' = {1} /\ stack'[1] = c
  OBVIOUS
<1>2. ToldOK(c)'
  BY DEF ToldOK
<1> QED  BY <1>1, <1>2 DEF StackInv

----------------------------------------------------------------------------
(* The order of the stack.                                                 *)

LEMMA DescendsGoto ==
  ASSUME TypeOK, stack # <<>>, NEW Rank, Descends(Rank, stack),
         NEW f \in Frames, f.sig = top.sig, Goto(f)
  PROVE  Descends(Rank, stack')
<1>1. /\ DOMAIN stack' = DOMAIN stack /\ stack'[1] = f
      /\ \A i \in DOMAIN stack : i # 1 => stack'[i] = stack[i]
  BY GotoFrames
<1>2. top = stack[1] /\ DOMAIN stack = 1 .. Len(stack) /\ Len(stack) \in Nat
  BY StackShape
<1>3. ASSUME NEW i \in DOMAIN stack, NEW j \in DOMAIN stack, i < j
      PROVE  stack'[j] = stack[j] /\ stack'[i].sig = stack[i].sig
  BY <1>1, <1>2, <1>3
<1> QED  BY <1>1, <1>3 DEF Descends

LEMMA DescendsCall ==
  ASSUME TypeOK, stack # <<>>, NEW Rank, IsRanking(Rank), Descends(Rank, stack),
         NEW f \in Frames, NEW c \in Frames, f.sig = top.sig, GotoCall(f, c),
         \/ Rank[c.sig] < Rank[f.sig]
         \/ f.op = "access" /\ f.at = "asked" /\ c.sig = f.sig
  PROVE  Descends(Rank, stack')
<1>1. /\ DOMAIN stack' = 1 .. Len(stack) + 1
      /\ stack'[1] = c /\ stack'[2] = f
      /\ \A i \in DOMAIN stack : i # 1 => stack'[i + 1] = stack[i]
  BY CallFrames
<1>2. /\ top = stack[1] /\ DOMAIN stack = 1 .. Len(stack) /\ Len(stack) \in Nat
      /\ 1 \in DOMAIN stack
      /\ \A i \in DOMAIN stack : stack[i].sig \in Signals
  BY StackShape, FrameUpdates
<1>3. \A s \in Signals : Rank[s] \in Nat
  BY DEF IsRanking
<1>4. c.sig \in Signals /\ f.sig \in Signals
  BY FrameUpdates
<1> SUFFICES ASSUME NEW i \in DOMAIN stack', NEW j \in DOMAIN stack', i < j
             PROVE  \/ Rank[stack'[i].sig] < Rank[stack'[j].sig]
                    \/ /\ stack'[j].op = "access" /\ stack'[j].at = "asked"
                       /\ stack'[i].sig = stack'[j].sig
  BY DEF Descends
<1>5. CASE j = 2
  <2>1. i = 1
    BY <1>1, <1>5
  <2> QED  BY <1>1, <1>5, <2>1
<1>6. CASE j # 2
  <2> DEFINE m == j - 1
  <2>1. m \in DOMAIN stack /\ m # 1 /\ 1 < m /\ j = m + 1
    BY <1>1, <1>2, <1>6
  <2> HIDE DEF m
  <2>2. stack'[j] = stack[m] /\ stack[m].sig \in Signals
    BY <1>1, <1>2, <2>1
  <2>3. \/ Rank[f.sig] < Rank[stack[m].sig]
        \/ stack[m].op = "access" /\ stack[m].at = "asked" /\ f.sig = stack[m].sig
    BY <1>2, <2>1 DEF Descends
  <2>4. CASE i = 1
    <3>1. stack'[i] = c
      BY <1>1, <2>4
    <3>2. Rank[c.sig] \in Nat /\ Rank[f.sig] \in Nat /\ Rank[stack[m].sig] \in Nat
      BY <1>3, <1>4, <2>2
    <3> QED  BY <2>2, <2>3, <3>1, <3>2
  <2>5. CASE i = 2
    BY <1>1, <2>2, <2>3, <2>5
  <2>6. CASE i # 1 /\ i # 2
    <3> DEFINE k == i - 1
    <3>1. k \in DOMAIN stack /\ k # 1 /\ i = k + 1 /\ k < m
      BY <1>1, <1>2, <2>1, <2>6
    <3> HIDE DEF k
    <3>2. stack'[i] = stack[k]
      BY <1>1, <3>1
    <3> QED  BY <2>1, <2>2, <3>1, <3>2 DEF Descends
  <2> QED  BY <2>4, <2>5, <2>6
<1> QED  BY <1>5, <1>6

LEMMA DescendsReturn ==
  ASSUME TypeOK, stack # <<>>, NEW Rank, Descends(Rank, stack), stack' = Tail(stack)
  PROVE  Descends(Rank, stack')
<1>1. /\ \A i \in DOMAIN stack' : i + 1 \in DOMAIN stack /\ stack'[i] = stack[i + 1]
      /\ DOMAIN stack' = 1 .. Len(stack) - 1
  BY ReturnFrames
<1>2. ASSUME NEW i \in DOMAIN stack', NEW j \in DOMAIN stack', i < j
      PROVE  i + 1 < j + 1
  BY <1>1, <1>2
<1> QED  BY <1>1, <1>2 DEF Descends

----------------------------------------------------------------------------
(* What a step keeps.                                                      *)

\* The state of an evaluation on which the proof works.
Safe(Rank) ==
  TypeOK /\ FreshInv /\ Descends(Rank, stack) /\ Ordered(Rank, stack)

\* Results only depend on the versions.
LEMMA SameSources ==
  ASSUME version' = version
  PROVE  /\ \A s \in Signals : Current(s)' = Current(s)
         /\ copy' = copy => \A s \in Signals : UpToDate(s)' = UpToDate(s)
BY DEF Current, UpToDate

\* What the running function has to work with.
LEMMA Given ==
  ASSUME NEW Rank, Safe(Rank), stack # <<>>
  PROVE  /\ top \in Frames /\ top = stack[1] /\ top.sig \in Signals
         /\ top.it \in Nat \ {0} /\ top.acc \in Values
         /\ FrameOK(top) /\ ToldOK(top)
         /\ used /\ setting = NoSignal /\ floor = version
         /\ \A s \in Signals : setting # s
         /\ now \in Nat /\ \A s \in Signals : stime[s] \in Nat /\ stime[s] <= now
<1>1. TypeOK /\ ClockInv /\ StackInv
  BY DEF Safe, FreshInv
<1>2. top = stack[1] /\ 1 \in DOMAIN stack /\ top \in Frames
  BY <1>1, StackShape
<1>3. top.sig \in Signals /\ top.it \in Nat \ {0} /\ top.acc \in Values
  BY <1>2, FrameUpdates
<1>4. FrameOK(top) /\ ToldOK(top)
  BY <1>1, <1>2 DEF StackInv
<1>5. used /\ setting = NoSignal /\ floor = version
      /\ \A s \in Signals : stime[s] <= now
  BY <1>1 DEF ClockInv
<1>6. \A s \in Signals : setting # s
  BY <1>5, GraphAssumption
<1>7. now \in Nat /\ \A s \in Signals : stime[s] \in Nat
  BY <1>1 DEF TypeOK
<1> QED  BY <1>2, <1>3, <1>4, <1>5, <1>6, <1>7

\* needUpdate() runs outside any evaluation of its signal, and is asked once at a
\* time for each; ...
LEMMA NeedAlone ==
  ASSUME NEW Rank, Ranks(Rank), Safe(Rank), stack # <<>>, top.op = "need"
  PROVE  /\ ~Running(top.sig)
         /\ \A g \in Frames : Pending(g) /\ g.op = "need" => g.sig # top.sig
<1>1. /\ top = stack[1] /\ top.sig \in Signals
      /\ DOMAIN stack = 1 .. Len(stack) /\ 1 \in DOMAIN stack
  BY Given, StackShape DEF Safe
<1>2. Rank[top.sig] \in Nat
  BY <1>1 DEF Ranks, IsRanking
<1>3. ASSUME NEW i \in DOMAIN stack, i # 1, stack[i].sig = top.sig
      PROVE  stack[i].op = "access" /\ stack[i].at = "asked"
  <2>1. 1 < i
    BY <1>1, <1>3
  <2> QED  BY <1>1, <1>2, <1>3, <2>1 DEF Safe, Descends
<1>4. ~Running(top.sig)
  BY <1>1, <1>3 DEF Running, RunPlaces
<1> QED  BY <1>3, <1>4 DEF Pending

\* ... access() has only callers that evaluate other signals.
LEMMA AccessAlone ==
  ASSUME NEW Rank, Ranks(Rank), Safe(Rank), stack # <<>>, top.op = "access"
  PROVE  \A g \in Frames : Pending(g) => g.op = "access" /\ g.sig # top.sig
<1>1. /\ top = stack[1] /\ top.sig \in Signals
      /\ DOMAIN stack = 1 .. Len(stack) /\ 1 \in DOMAIN stack
  BY Given, StackShape DEF Safe
<1>2. Rank[top.sig] \in Nat
  BY <1>1 DEF Ranks, IsRanking
<1>3. ASSUME NEW i \in DOMAIN stack, i # 1
      PROVE  stack[i].op = "access" /\ stack[i].sig # top.sig
  <2>1. 1 < i
    BY <1>1, <1>3
  <2> QED  BY <1>1, <1>2, <2>1 DEF Safe, Ordered
<1> QED  BY <1>3 DEF Pending

\* What a call knows stays true as long as no signal changes but for the sticky
\* flags of other signals, ...
LEMMA KnowsStill ==
  ASSUME NEW g \in Frames, FrameOK(g),
         UNCHANGED <<stime, ready, deps, copy, version, setting, now>>,
         TypeOK, g.op = "need" => (lastAsk'[g.sig] => lastAsk[g.sig])
  PROVE  FrameOK(g)'
<1>1. \A s \in Signals : UpToDate(s)' = UpToDate(s)
  BY SameSources
<1>2. \A s \in Signals : Current(s)' = Current(s)
  BY SameSources
<1>3. g.sig \in Signals /\ Inputs[g.sig] \in Seq(Signals) /\ deps[g.sig] \in Seq(Signals)
  BY FrameUpdates, GraphAssumption DEF TypeOK
<1>4. \A k \in DOMAIN deps[g.sig] : deps[g.sig][k] \in Signals
  BY <1>3, ElementOfSeq, LenProperties
<1>5. \A k \in DOMAIN Inputs[g.sig] : Inputs[g.sig][k] \in Signals
  BY <1>3, ElementOfSeq, LenProperties
<1>6. \A d \in Range(Inputs[g.sig]) : d \in Signals
  BY <1>5 DEF Range
<1>7. CASE g.op = "need"
  <2>1. NeedFrame(g)
    BY <1>7 DEF FrameOK
  <2>2. \A d \in Signals : Flagged(d)' = Flagged(d)
    BY DEF Flagged
  <2>3. NeedFrame(g)'
    BY <1>1, <1>4, <1>7, <2>1, <2>2 DEF NeedFrame
  <2> QED  BY <1>7, <2>3 DEF FrameOK
<1>8. CASE g.op = "access"
  <2>1. AccessFrame(g)
    BY <1>8 DEF FrameOK
  <2>2. \A n \in Nat, v \in Values : Gathered(g.sig, n, v) => Gathered(g.sig, n, v)'
    BY <1>1, <1>2, <1>5 DEF Gathered
  <2>3. g.it \in Nat /\ g.it - 1 \in Nat /\ g.acc \in Values
    <3>1. g.it \in Nat \ {0} /\ g.acc \in Values
      BY DEF Frames
    <3> QED  BY <3>1
  <2>4. AccessFrame(g)'
    BY <1>1, <1>3, <1>6, <2>1, <2>2, <2>3 DEF AccessFrame
  <2> QED  BY <1>8, <2>4 DEF FrameOK
<1> QED  BY <1>7, <1>8 DEF Frames

\* ... and what access() knows, as long as no other result gets older.
LEMMA KnowsMore ==
  ASSUME NEW g \in Frames, FrameOK(g), TypeOK, g.op = "access",
         UNCHANGED <<deps, version, setting, now>>,
         stime'[g.sig] = stime[g.sig], ready'[g.sig] = ready[g.sig],
         copy'[g.sig] = copy[g.sig],
         \A d \in Signals : UpToDate(d) => UpToDate(d)'
  PROVE  FrameOK(g)'
<1>1. \A s \in Signals : Current(s)' = Current(s)
  BY SameSources
<1>2. g.sig \in Signals /\ Inputs[g.sig] \in Seq(Signals)
  BY GraphAssumption DEF Frames
<1>3. \A k \in DOMAIN Inputs[g.sig] : Inputs[g.sig][k] \in Signals
  BY <1>2, ElementOfSeq, LenProperties
<1>4. \A d \in Range(Inputs[g.sig]) : d \in Signals
  BY <1>3 DEF Range
<1>5. AccessFrame(g)
  BY DEF FrameOK
<1>6. \A n \in Nat, v \in Values : Gathered(g.sig, n, v) => Gathered(g.sig, n, v)'
  BY <1>1, <1>3 DEF Gathered
<1>7. g.it \in Nat /\ g.it - 1 \in Nat /\ g.acc \in Values
  <2>1. g.it \in Nat \ {0} /\ g.acc \in Values
    BY DEF Frames
  <2> QED  BY <2>1
<1>8. AccessFrame(g)'
  BY <1>2, <1>4, <1>5, <1>6, <1>7 DEF AccessFrame
<1> QED  BY <1>8 DEF FrameOK

\* Steps that do not touch results keep what is said of them, as long as every
\* running evaluation stays one and no sticky flag is lost.
LEMMA ResultsStill ==
  ASSUME SourcesInv, Explained, Today,
         UNCHANGED <<stime, ready, copy, version, setting, now>>, used => used',
         \A s \in Cached : Running(s) => Running(s)',
         \A s \in Cached : lastAsk[s] => lastAsk'[s] \/ Running(s)'
  PROVE  SourcesInv' /\ Explained' /\ Today'
<1>1. Cached \subseteq Signals
  BY GraphAssumption DEF Cached
<1>2. \A s \in Cached : \A d \in Range(Inputs[s]) : d \in Signals
  <2>1. ASSUME NEW s \in Cached, NEW d \in Range(Inputs[s]) PROVE d \in Signals
    <3>1. Inputs[s] \in Seq(Signals)
      BY <1>1, GraphAssumption
    <3>2. PICK k \in DOMAIN Inputs[s] : d = Inputs[s][k]
      BY DEF Range
    <3> QED  BY <3>1, <3>2, ElementOfSeq, LenProperties
  <2> QED  BY <2>1
<1>3. \A s \in Signals : UpToDate(s)' = UpToDate(s)
  BY SameSources
<1>4. SourcesInv'
  BY DEF SourcesInv
<1>5. \A d \in Signals : Flagged(d)' = Flagged(d)
  BY DEF Flagged
<1>6. Explained'
  BY <1>2, <1>5 DEF Explained
<1>7. Today'
  BY <1>1, <1>2, <1>3 DEF Today
<1> QED  BY <1>4, <1>6, <1>7

\* The clock's part, of any step of an evaluation.
LEMMA ClockStill ==
  ASSUME NEW Rank, Safe(Rank), stack # <<>>,
         UNCHANGED <<deps, version, setting, now, used, floor>>,
         \A s \in Signals : stime'[s] \in {stime[s], now},
         \/ reply' = reply
         \/ reply'.sig \in Signals /\ reply'.val = Current(reply'.sig)
  PROVE  ClockInv'
<1>1. ClockInv /\ reply.sig \in Signals \cup {NoSignal}
  BY DEF Safe, FreshInv, TypeOK
<1>2. \A s \in Signals : Current(s)' = Current(s)
  BY SameSources
<1>3. used /\ now \in Nat
  BY Given
<1>4. (reply.sig)' # NoSignal => (reply.val)' = Current(reply.sig)'
  <2>1. CASE reply' = reply
    BY <1>1, <1>2, <2>1 DEF ClockInv
  <2>2. CASE reply'.sig \in Signals /\ reply'.val = Current(reply'.sig)
    BY <1>2, <2>2
  <2> QED  BY <2>1, <2>2
<1>5. \A s \in Signals : stime'[s] <= now'
  BY <1>1, <1>3 DEF ClockInv
<1> QED  BY <1>1, <1>3, <1>4, <1>5 DEF ClockInv

\* The evaluations in progress after a step inside the running function, ...
LEMMA RunsOn ==
  ASSUME TypeOK, stack # <<>>, NEW f \in Frames, f.op = top.op, f.sig = top.sig,
         top.op = "access" /\ top.at \in RunPlaces => f.at \in RunPlaces,
         \/ Goto(f)
         \/ \E c \in Frames : GotoCall(f, c)
  PROVE  /\ \A s : Running(s) => Running(s)'
         /\ f.op = "access" /\ f.at \in RunPlaces => Running(f.sig)'
<1>1. /\ top = stack[1] /\ DOMAIN stack = 1 .. Len(stack) /\ Len(stack) \in Nat
      /\ 1 \in DOMAIN stack
  BY StackShape
<1>2. CASE Goto(f)
  <2>1. /\ DOMAIN stack' = DOMAIN stack /\ stack'[1] = f
        /\ \A i \in DOMAIN stack : i # 1 => stack'[i] = stack[i]
    BY <1>2, GotoFrames
  <2> QED  BY <1>1, <2>1 DEF Running
<1>3. CASE \E c \in Frames : GotoCall(f, c)
  <2>1. PICK c \in Frames : GotoCall(f, c)
    BY <1>3
  <2>2. /\ DOMAIN stack' = 1 .. Len(stack) + 1
        /\ stack'[2] = f /\ 2 \in DOMAIN stack'
        /\ \A i \in DOMAIN stack : i # 1 => stack'[i + 1] = stack[i]
        /\ \A i \in DOMAIN stack : i + 1 \in DOMAIN stack'
    BY <1>1, <2>1, CallFrames
  <2>3. f.op = "access" /\ f.at \in RunPlaces => Running(f.sig)'
    BY <2>2 DEF Running
  <2>4. ASSUME NEW s, NEW i \in DOMAIN stack, stack[i].op = "access",
               stack[i].sig = s, stack[i].at \in RunPlaces
        PROVE  Running(s)'
    <3>1. CASE i = 1
      BY <1>1, <2>3, <2>4, <3>1
    <3>2. CASE i # 1
      <4>1. i + 1 \in DOMAIN stack' /\ stack'[i + 1] = stack[i]
        BY <2>2, <3>2
      <4> QED  BY <2>4, <4>1 DEF Running
    <3> QED  BY <3>1, <3>2
  <2> QED  BY <2>3, <2>4 DEF Running
<1> QED  BY <1>2, <1>3

\* ... and after a return.
LEMMA RunsOver ==
  ASSUME TypeOK, stack # <<>>, stack' = Tail(stack)
  PROVE  \A s : Running(s) => \/ Running(s)'
                              \/ top.op = "access" /\ top.sig = s /\ top.at \in RunPlaces
<1>1. /\ top = stack[1] /\ DOMAIN stack = 1 .. Len(stack) /\ Len(stack) \in Nat
      /\ DOMAIN stack' = 1 .. Len(stack) - 1
      /\ \A i \in DOMAIN stack' : stack'[i] = stack[i + 1]
  BY StackShape, ReturnFrames
<1>2. ASSUME NEW s, NEW i \in DOMAIN stack, i # 1, stack[i].op = "access",
             stack[i].sig = s, stack[i].at \in RunPlaces
      PROVE  Running(s)'
  <2>1. i - 1 \in DOMAIN stack' /\ (i - 1) + 1 = i
    BY <1>1, <1>2
  <2>2. stack'[i - 1] = stack[i]
    BY <1>1, <2>1
  <2> QED  BY <1>2, <2>1, <2>2 DEF Running
<1> QED  BY <1>1, <1>2 DEF Running

\* The fields of an updated frame.
LEMMA FrameFields ==
  ASSUME NEW f \in Frames, NEW x \in Places
  PROVE  LET g == [f EXCEPT !.at = x]
         IN  g \in Frames /\ g.op = f.op /\ g.sig = f.sig /\ g.at = x
                          /\ g.it = f.it /\ g.acc = f.acc
<1>1. f = [op |-> f.op, sig |-> f.sig, at |-> f.at, it |-> f.it, acc |-> f.acc]
  BY DEF Frames
<1>2. [f EXCEPT !.at = x] \in Frames
  BY FrameUpdates
<1> QED  BY <1>1, <1>2

LEMMA NextFields ==
  ASSUME NEW f \in Frames, NEW x \in Places
  PROVE  LET g == [f EXCEPT !.at = x, !.it = @ + 1]
         IN  g \in Frames /\ g.op = f.op /\ g.sig = f.sig /\ g.at = x
                          /\ g.it = f.it + 1 /\ g.acc = f.acc
<1>1. f = [op |-> f.op, sig |-> f.sig, at |-> f.at, it |-> f.it, acc |-> f.acc]
  BY DEF Frames
<1>2. [f EXCEPT !.at = x, !.it = @ + 1] \in Frames
  BY FrameUpdates
<1> QED  BY <1>1, <1>2

\* The frames of new calls.
LEMMA CallFields ==
  ASSUME NEW s \in Signals
  PROVE  /\ CallNeed(s) \in Frames /\ CallNeed(s).op = "need" /\ CallNeed(s).sig = s
         /\ CallNeed(s).at = "enter" /\ FrameOK(CallNeed(s)) /\ FrameOK(CallNeed(s))'
         /\ CallAccess(s) \in Frames /\ CallAccess(s).op = "access"
         /\ CallAccess(s).sig = s /\ CallAccess(s).at \in {"ask", "run"}
         /\ FrameOK(CallAccess(s)) /\ FrameOK(CallAccess(s))'
<1>1. CallAccess(s) \in Frames /\ CallNeed(s) \in Frames
  BY FrameTypes
<1>2. /\ CallNeed(s).op = "need" /\ CallNeed(s).sig = s
      /\ CallNeed(s).at = "enter" /\ CallNeed(s).it = 1
  BY DEF CallNeed, Frame
<1>3. /\ CallAccess(s).op = "access" /\ CallAccess(s).sig = s
      /\ CallAccess(s).at \in {"ask", "run"}
      /\ CallAccess(s).at = "ask" => s \in TimeDep
      /\ CallAccess(s).it = 1 /\ CallAccess(s).acc = {}
  BY DEF CallAccess, Frame
<1> DEFINE n == CallNeed(s)
           a == CallAccess(s)
<1>4. n.op = "need" /\ n.at = "enter" /\ n.it = 1
  BY <1>2
<1>5. /\ a.op = "access" /\ a.sig = s /\ a.it = 1 /\ a.acc = {}
      /\ a.at \in {"ask", "run"}
      /\ a.at = "ask" => s \in TimeDep
  BY <1>3
<1> HIDE DEF n, a
<1>6. FrameOK(n) /\ FrameOK(n)'
  BY <1>4 DEF FrameOK, NeedFrame
<1>7. FrameOK(a) /\ FrameOK(a)'
  BY <1>5 DEF FrameOK, AccessFrame, RunPlaces
<1> QED  BY <1>1, <1>2, <1>3, <1>6, <1>7 DEF n, a

----------------------------------------------------------------------------
(* The steps of needUpdate().                                              *)

\* They change nothing but the sticky flag of their signal.
NeedOnly ==
  /\ UNCHANGED <<stime, ready, deps, copy, value, clockVars, setVars, reply>>
  /\ lastAsk' \in [Signals -> BOOLEAN]
  /\ \A s \in Signals : s # top.sig => lastAsk'[s] = lastAsk[s]
  /\ lastAsk[top.sig] => lastAsk'[top.sig]

LEMMA NeedQuiet ==
  ASSUME NEW Rank, Ranks(Rank), Safe(Rank), stack # <<>>, top.op = "need",
         NeedOnly, \A s \in Cached : Running(s) => Running(s)'
  PROVE  /\ SourcesInv' /\ Explained' /\ Today' /\ ClockInv'
         /\ \A g \in Frames : Pending(g) /\ FrameOK(g) => FrameOK(g)'
         /\ \A s \in Signals : UpToDate(s)' = UpToDate(s) /\ Flagged(s)' = Flagged(s)
<1>1. SourcesInv /\ Explained /\ Today /\ TypeOK
  BY DEF Safe, FreshInv
<1>2. UNCHANGED <<stime, ready, deps, copy, version, setting, now, used, floor, reply>>
  BY DEF NeedOnly, clockVars, setVars
<1>3. \A s \in Cached : lastAsk[s] => lastAsk'[s]
  BY GraphAssumption DEF NeedOnly, Cached
<1>4. SourcesInv' /\ Explained' /\ Today'
  BY <1>1, <1>2, <1>3, ResultsStill
<1>5. ClockInv'
  <2>1. \A s \in Signals : stime'[s] \in {stime[s], now}
    BY <1>2
  <2> QED  BY <1>2, <2>1, ClockStill
<1>6. ASSUME NEW g \in Frames, Pending(g), FrameOK(g) PROVE FrameOK(g)'
  <2>1. g.op = "need" => g.sig # top.sig
    BY <1>6, NeedAlone
  <2>2. g.sig \in Signals
    BY FrameUpdates
  <2>3. g.op = "need" => lastAsk'[g.sig] = lastAsk[g.sig]
    BY <2>1, <2>2 DEF NeedOnly
  <2> QED  BY <1>1, <1>2, <1>6, <2>3, KnowsStill
<1>7. \A s \in Signals : UpToDate(s)' = UpToDate(s) /\ Flagged(s)' = Flagged(s)
  BY <1>2, SameSources DEF Flagged
<1> QED  BY <1>4, <1>5, <1>6, <1>7

\* A new state of the proof, but for its types and the order of the evaluations.
Kept(Rank) == FreshInv' /\ Descends(Rank, stack')

\* needUpdate() may say no when the result is what the sources make, and there is no
\* flag.
LEMMA NeedReturns ==
  ASSUME NEW Rank, Ranks(Rank), Safe(Rank), stack # <<>>, top.op = "need",
         NeedOnly, NEW yes \in BOOLEAN, ReturnAnswer(yes),
         ~yes => UpToDate(top.sig) /\ ~Flagged(top.sig)
  PROVE  Kept(Rank)
<1>1. stack' = Tail(stack) /\ (~outermost => answer' = yes)
  BY DEF ReturnAnswer
<1>2. TypeOK /\ StackInv /\ Descends(Rank, stack) /\ deps' = deps
  BY DEF Safe, FreshInv, NeedOnly
<1>3. \A s \in Cached : Running(s) => Running(s)'
  BY <1>1, <1>2, RunsOver
<1>4. /\ SourcesInv' /\ Explained' /\ Today' /\ ClockInv'
      /\ \A g \in Frames : Pending(g) /\ FrameOK(g) => FrameOK(g)'
      /\ \A s \in Signals : UpToDate(s)' = UpToDate(s) /\ Flagged(s)' = Flagged(s)
  BY <1>3, NeedQuiet
<1>5. top.sig \in Signals
  BY Given
<1>6. ~yes => UpToDate(top.sig) /\ ~Flagged(top.sig)
  OBVIOUS
<1>7. ASSUME NEW g \in Frames, ~outermost, Calls(g, top) PROVE ToldOK(g)'
  <2>0. PICK s \in Signals : s = top.sig
    BY <1>5
  <2>1. ~answer' => UpToDate(s)' /\ ~Flagged(s)'
    <3>1. ~answer' => UpToDate(s) /\ ~Flagged(s)
      BY <1>1, <1>6, <1>7, <2>0
    <3> QED  BY <1>4, <3>1
  <2>2. \/ g.op = "need" /\ g.at = "asked" /\ s = deps[g.sig][g.it]
        \/ g.op = "access" /\ g.at = "asked" /\ s = g.sig
    BY <1>7, <2>0 DEF Calls
  <2> QED  BY <1>2, <2>1, <2>2 DEF ToldOK
<1>8. StackInv'
  BY <1>1, <1>2, <1>4, <1>7, StackReturns
<1>9. Descends(Rank, stack')
  BY <1>1, <1>2, DescendsReturn
<1> QED  BY <1>4, <1>8, <1>9 DEF Kept, FreshInv

\* It may go on to the next dependency when the ones before give no reason.
LEMMA NeedGoes ==
  ASSUME NEW Rank, Ranks(Rank), Safe(Rank), stack # <<>>, top.op = "need",
         NeedOnly, NEW f \in Frames, f.op = "need", f.sig = top.sig, f.at = "loop",
         Goto(f), FrameOK(f), lastAsk' = lastAsk
  PROVE  Kept(Rank)
<1>1. TypeOK /\ StackInv /\ Descends(Rank, stack) /\ deps' = deps
  BY DEF Safe, FreshInv, NeedOnly
<1>2. \A s \in Cached : Running(s) => Running(s)'
  BY <1>1, RunsOn
<1>3. /\ SourcesInv' /\ Explained' /\ Today' /\ ClockInv'
      /\ \A g \in Frames : Pending(g) /\ FrameOK(g) => FrameOK(g)'
  BY <1>2, NeedQuiet
<1>4. FrameOK(f)'
  BY <1>1, KnowsStill DEF NeedOnly, clockVars, setVars
<1>5. ToldOK(f)'
  BY DEF ToldOK
<1>6. StackInv'
  BY <1>1, <1>3, <1>4, <1>5, StackGoes
<1>7. Descends(Rank, stack')
  BY <1>1, DescendsGoto
<1> QED  BY <1>3, <1>6, <1>7 DEF Kept, FreshInv

\* A signal without cached results that is not ready is a constant, whose result is
\* its version.
LEMMA ConstantFound ==
  ASSUME Watchful, NEW Rank, Safe(Rank), stack # <<>>,
         NEW s \in Signals, s \notin Cached, ~ready[s]
  PROVE  Type[s] = "CONSTANT" /\ UpToDate(s) /\ ~Flagged(s)
<1>1. Type[s] = "CONSTANT"
  <2>1. Type[s] \in {"CONSTANT", "REFERENCE", "FUNCTION"}
    BY GraphAssumption
  <2>2. CASE s \in TimeDep
    BY <2>1, <2>2 DEF Cached, Watchful
  <2>3. CASE s \notin TimeDep
    BY <2>3 DEF Safe, FreshInv, SourcesInv
  <2> QED  BY <2>2, <2>3
<1>2. s \in Sources
  BY <1>1 DEF Sources
<1>3. copy[s] = {<<s, version[s]>>}
  BY <1>1 DEF Safe, FreshInv, SourcesInv
<1>4. UpToDate(s)
  BY <1>2, <1>3, CurrentSource DEF UpToDate
<1>5. ~Flagged(s)
  BY Given DEF Flagged
<1> QED  BY <1>1, <1>4, <1>5

LEMMA KeepsEnter ==
  ASSUME Watchful, NEW Rank, Ranks(Rank), Safe(Rank), NeedEnter
  PROVE  Kept(Rank)
<1> DEFINE yes == \/ ready[top.sig]
                  \/ top.sig \in TimeDep /\ (lastAsk[top.sig] \/ Kind[top.sig] = "ALWAYS_READY")
           no  == \/ top.sig \notin TimeDep
                  \/ Kind[top.sig] = "TIME_DEPENDENT" /\ now < stime[top.sig] + Period[top.sig]
<1>1. stack # <<>> /\ top.op = "need" /\ top.at = "enter"
  BY DEF NeedEnter, At
<1>2. NeedOnly /\ lastAsk' = lastAsk
  BY DEF NeedEnter, NeedOnly, signalVars, Safe, TypeOK
<1>3. \/ ReturnAnswer(TRUE)
      \/ ~yes /\ no /\ ReturnAnswer(FALSE)
      \/ ~yes /\ ~no /\ Goto([top EXCEPT !.at = "loop"])
  BY DEF NeedEnter
<1>4. /\ top \in Frames /\ top.sig \in Signals /\ FrameOK(top)
      /\ now \in Nat /\ stime[top.sig] \in Nat /\ stime[top.sig] <= now
  BY <1>1, Given
<1>5. CASE ReturnAnswer(TRUE)
  BY <1>1, <1>2, <1>5, NeedReturns
<1>6. CASE ~yes /\ no /\ ReturnAnswer(FALSE)
  <2>1. CASE top.sig \notin Cached
    <3>1. UpToDate(top.sig) /\ ~Flagged(top.sig)
      BY <1>1, <1>4, <1>6, <2>1, ConstantFound
    <3> QED  BY <1>1, <1>2, <1>6, <3>1, NeedReturns
  <2>2. CASE top.sig \in Cached
    <3>1. /\ top.sig \in TimeDep /\ Kind[top.sig] = "TIME_DEPENDENT"
          /\ now < stime[top.sig] + Period[top.sig]
      BY <1>6, <2>2 DEF Cached
    <3>2. Period[top.sig] \in Nat /\ Period[top.sig] <= 1
      BY <1>4, <3>1, GraphAssumption DEF Watchful
    <3>3. stime[top.sig] = now
      BY <1>4, <3>1, <3>2
    <3>4. ~Running(top.sig)
      BY <1>1, NeedAlone
    <3>5. UpToDate(top.sig)
      BY <1>6, <2>2, <3>3, <3>4 DEF Safe, FreshInv, Today
    <3>6. ~Flagged(top.sig)
      BY <2>2 DEF Flagged
    <3> QED  BY <1>1, <1>2, <1>6, <3>5, <3>6, NeedReturns
  <2> QED  BY <2>1, <2>2
<1>7. CASE ~yes /\ ~no /\ Goto([top EXCEPT !.at = "loop"])
  <2> DEFINE f == [top EXCEPT !.at = "loop"]
  <2>1. /\ f \in Frames /\ f.op = top.op /\ f.sig = top.sig /\ f.at = "loop"
        /\ f.it = top.it
    <3>1. "loop" \in Places
      BY DEF Places
    <3> QED  BY <1>4, <3>1, FrameFields
  <2>2. top.it = 1
    BY <1>1, <1>4 DEF FrameOK, NeedFrame
  <2>3. top.sig \in TimeDep /\ ~ready[top.sig] /\ ~lastAsk[top.sig]
    BY <1>7
  <2>4. Goto(f)
    BY <1>7
  <2> HIDE DEF f
  <2>5. FrameOK(f)
    BY <1>1, <2>1, <2>2, <2>3 DEF FrameOK, NeedFrame
  <2> QED  BY <1>1, <1>2, <2>1, <2>4, <2>5, NeedGoes
<1> QED  BY <1>3, <1>5, <1>6, <1>7

\* One dependency examined: yes is an answer, after no comes the next one.
LEMMA KeepsVerdict ==
  ASSUME Watchful, NEW Rank, Ranks(Rank), Safe(Rank), stack # <<>>, top.op = "need",
         top.at \in {"loop", "asked"},
         NEW yes \in BOOLEAN, NeedVerdict(yes),
         ~yes => LET d == deps[top.sig][top.it]
                 IN  UpToDate(d) /\ ~Flagged(d) /\ stime[d] <= stime[top.sig],
         UNCHANGED <<stime, ready, deps, copy, value, clockVars, setVars, reply>>
  PROVE  Kept(Rank)
<1>1. /\ top \in Frames /\ top.sig \in Signals /\ FrameOK(top) /\ top.it \in Nat \ {0}
      /\ lastAsk \in [Signals -> BOOLEAN]
  BY Given DEF Safe, TypeOK
<1>2. CASE yes
  <2>1. NeedResult(TRUE)
    BY <1>2 DEF NeedVerdict, Watchful
  <2>2. lastAsk' = [lastAsk EXCEPT ![top.sig] = TRUE] /\ ReturnAnswer(TRUE)
    BY <2>1 DEF NeedResult
  <2>3. NeedOnly
    BY <1>1, <2>2 DEF NeedOnly
  <2> QED  BY <2>2, <2>3, NeedReturns
<1>3. CASE ~yes
  <2> DEFINE f == [top EXCEPT !.at = "loop", !.it = @ + 1]
  <2>1. Goto(f) /\ lastAsk' = lastAsk
    BY <1>3 DEF NeedVerdict, Watchful
  <2>2. /\ f \in Frames /\ f.op = top.op /\ f.sig = top.sig /\ f.at = "loop"
        /\ f.it = top.it + 1
    <3>1. "loop" \in Places
      BY DEF Places
    <3> QED  BY <1>1, <3>1, NextFields
  <2> HIDE DEF f
  <2>3. NeedOnly
    BY <1>1, <2>1 DEF NeedOnly
  <2>4. NeedFrame(top)
    BY <1>1 DEF FrameOK
  <2>5. \A k \in 1 .. f.it - 1 : k \in 1 .. top.it - 1 \/ k = top.it
    BY <1>1, <2>2
  <2>6. FrameOK(f)
    BY <1>3, <2>2, <2>4, <2>5 DEF FrameOK, NeedFrame
  <2> QED  BY <2>1, <2>2, <2>3, <2>6, NeedGoes
<1> QED  BY <1>2, <1>3

LEMMA KeepsAsked ==
  ASSUME Watchful, NEW Rank, Ranks(Rank), Safe(Rank), NeedAsked
  PROVE  Kept(Rank)
<1>1. stack # <<>> /\ top.op = "need" /\ top.at = "asked"
  BY DEF NeedAsked, At
<1>2. NeedVerdict(answer) /\ answer \in BOOLEAN
      /\ UNCHANGED <<stime, ready, deps, copy, value, clockVars, setVars, reply>>
  BY DEF NeedAsked, Safe, TypeOK
<1>3. NeedFrame(top) /\ ToldOK(top)
  BY <1>1, Given DEF FrameOK
<1>4. ~answer => LET d == deps[top.sig][top.it]
                 IN  UpToDate(d) /\ ~Flagged(d) /\ stime[d] <= stime[top.sig]
  BY <1>1, <1>3 DEF NeedFrame, ToldOK
<1> QED  BY <1>1, <1>2, <1>4, KeepsVerdict

LEMMA KeepsDependency ==
  ASSUME Watchful, NEW Rank, Ranks(Rank), Safe(Rank), NeedDependency
  PROVE  Kept(Rank)
<1>1. /\ stack # <<>> /\ top.op = "need" /\ top.at = "loop"
      /\ top.it <= Len(deps[top.sig])
      /\ UNCHANGED <<stime, ready, deps, copy, value, clockVars, setVars, reply>>
  BY DEF NeedDependency, At
<1>2. /\ top \in Frames /\ top.sig \in Signals /\ FrameOK(top) /\ top.it \in Nat \ {0}
      /\ \A s \in Signals : stime[s] \in Nat
  BY <1>1, Given
<1>3. TypeOK /\ StackInv /\ ClockInv /\ Descends(Rank, stack) /\ IsRanking(Rank)
  BY DEF Safe, FreshInv, Ranks
<1>4. PICK d \in Signals : d = deps[top.sig][top.it]
  BY <1>1, <1>2, <1>3, Lists
<1>5. top.it \in DOMAIN deps[top.sig] /\ Rank[d] < Rank[top.sig]
  <2>1. top.it \in DOMAIN deps[top.sig]
    BY <1>1, <1>2, <1>3, Lists
  <2>2. \E j \in DOMAIN DepArgs[top.sig] : d = DepArgs[top.sig][j]
    BY <1>2, <1>3, <1>4, <2>1, Lists
  <2> QED  BY <1>2, <2>1, <2>2 DEF Ranks
<1>6. CASE stime[d] > stime[top.sig]
  <2>1. NeedVerdict(TRUE)
    BY <1>4, <1>6 DEF NeedDependency
  <2> QED  BY <1>1, <2>1, KeepsVerdict
<1>7. CASE ~(stime[d] > stime[top.sig])
  <2>0. PICK f \in Frames : f = [top EXCEPT !.at = "asked"]
    <3>1. "asked" \in Places
      BY DEF Places
    <3> QED  BY <1>2, <3>1, FrameUpdates
  <2>2. f.op = top.op /\ f.sig = top.sig /\ f.at = "asked" /\ f.it = top.it
    <3>1. "asked" \in Places
      BY DEF Places
    <3> QED  BY <1>2, <2>0, <3>1, FrameFields
  <2> DEFINE c == CallNeed(d)
  <2>1. GotoCall(f, c) /\ UNCHANGED <<lastAsk, answer>>
    BY <1>4, <1>7, <2>0 DEF NeedDependency
  <2>3. /\ c \in Frames /\ c.op = "need" /\ c.sig = d /\ c.at = "enter" /\ FrameOK(c)'
    BY CallFields
  <2> HIDE DEF c
  <2>4. NeedOnly
    BY <1>1, <1>3, <2>1 DEF NeedOnly, TypeOK
  <2>5. \A s \in Cached : Running(s) => Running(s)'
    BY <1>1, <1>3, <2>1, <2>2, <2>3, RunsOn
  <2>6. /\ SourcesInv' /\ Explained' /\ Today' /\ ClockInv'
        /\ \A g \in Frames : Pending(g) /\ FrameOK(g) => FrameOK(g)'
    BY <1>1, <2>4, <2>5, NeedQuiet
  <2>7. FrameOK(f)
    <3>1. stime[d] <= stime[top.sig]
      BY <1>2, <1>7
    <3>2. NeedFrame(top)
      BY <1>1, <1>2 DEF FrameOK
    <3>3. NeedFrame(f)
      BY <1>1, <1>4, <1>5, <2>2, <3>1, <3>2 DEF NeedFrame
    <3> QED  BY <1>1, <2>2, <3>3 DEF FrameOK
  <2>8. FrameOK(f)'
    BY <1>1, <1>3, <2>1, <2>2, <2>7, KnowsStill DEF clockVars, setVars
  <2>9. Calls(f, c)
    BY <1>1, <1>4, <1>5, <2>2, <2>3 DEF Calls
  <2>10. StackInv'
    BY <1>1, <1>3, <2>1, <2>2, <2>3, <2>6, <2>8, <2>9, StackCalls
  <2>11. Descends(Rank, stack')
    BY <1>1, <1>3, <1>5, <2>1, <2>2, <2>3, DescendsCall
  <2> QED  BY <2>6, <2>10, <2>11 DEF Kept, FreshInv
<1> QED  BY <1>6, <1>7

\* No dependency gave a reason: the cached result is made from the results of the
\* inputs, which are up to date.
LEMMA KeepsLoopEnds ==
  ASSUME Watchful, NEW Rank, Ranks(Rank), Safe(Rank), NeedLoopEnds
  PROVE  Kept(Rank)
<1>1. /\ stack # <<>> /\ top.op = "need" /\ top.at = "loop"
      /\ top.it > Len(deps[top.sig])
      /\ UNCHANGED <<stime, ready, deps, copy, value, clockVars, setVars, reply>>
  BY DEF NeedLoopEnds, At
<1>2. /\ top \in Frames /\ top.sig \in Signals /\ FrameOK(top) /\ top.it \in Nat \ {0}
      /\ \A s \in Signals : stime[s] \in Nat
  BY <1>1, Given
<1>3. lastAsk \in [Signals -> BOOLEAN] /\ ClockInv
  BY DEF Safe, FreshInv, TypeOK
<1>4. top.sig \in TimeDep /\ ~ready[top.sig] /\ ~lastAsk[top.sig]
      /\ \A k \in DOMAIN deps[top.sig] :
           LET d == deps[top.sig][k]
           IN  UpToDate(d) /\ ~Flagged(d) /\ stime[d] <= stime[top.sig]
  <2>1. NeedFrame(top)
    BY <1>1, <1>2 DEF FrameOK
  <2>2. \A k \in DOMAIN deps[top.sig] : k \in 1 .. top.it - 1
    BY <1>1, <1>2, <1>3, Lists
  <2> QED  BY <1>1, <2>1, <2>2 DEF NeedFrame
<1>5. lastAsk' = [lastAsk EXCEPT ![top.sig] = FALSE] /\ ReturnAnswer(FALSE)
  <2>1. (top.sig \in AllChildren) = FALSE
    BY DEF Watchful
  <2> QED  BY <2>1 DEF NeedLoopEnds, NeedResult, ReturnAnswer
<1>6. NeedOnly
  BY <1>1, <1>2, <1>3, <1>4, <1>5 DEF NeedOnly
<1>7. UpToDate(top.sig) /\ ~Flagged(top.sig)
  <2>1. CASE top.sig \notin Cached
    BY <1>1, <1>2, <1>4, <2>1, ConstantFound
  <2>2. CASE top.sig \in Cached
    <3>1. ~Running(top.sig)
      BY <1>1, NeedAlone
    <3>2. \A d \in Range(Inputs[top.sig]) : UpToDate(d) /\ ~Flagged(d)
                                            /\ stime[d] <= stime[top.sig]
      <4>1. ASSUME NEW d \in Range(Inputs[top.sig])
            PROVE  \E k \in DOMAIN deps[top.sig] : deps[top.sig][k] = d
        <5>1. d \in Range(DepArgs[top.sig])
          BY <1>4 DEF Watchful
        <5> QED  BY <1>2, <1>3, <5>1, Lists
      <4> QED  BY <1>4, <4>1
    <3>3. \A d \in Range(Inputs[top.sig]) : d \in Signals
      BY <1>2, <1>3, Lists
    <3>4. copy[top.sig] = UNION {copy[d] : d \in Range(Inputs[top.sig])}
      <4>1. \A d \in Range(Inputs[top.sig]) : ~(stime[d] > stime[top.sig])
        BY <1>2, <3>2, <3>3
      <4>2. \/ ready[top.sig] \/ lastAsk[top.sig]
            \/ \E d \in Range(Inputs[top.sig]) :
                 Flagged(d) \/ stime[d] > stime[top.sig]
            \/ copy[top.sig] = UNION {copy[d] : d \in Range(Inputs[top.sig])}
        BY <2>2, <3>1 DEF Safe, FreshInv, Explained
      <4> QED  BY <1>4, <3>2, <4>1, <4>2
    <3>5. Type[top.sig] = "FUNCTION"
      BY <2>2 DEF Cached
    <3>6. UpToDate(top.sig)
      <4>1. \A d \in Range(Inputs[top.sig]) : copy[d] = Current(d)
        BY <3>2 DEF UpToDate
      <4>2. Current(top.sig) = UNION {Current(d) : d \in Range(Inputs[top.sig])}
        BY <1>2, <3>5, CurrentFunction
      <4> QED  BY <3>4, <4>1, <4>2 DEF UpToDate
    <3>7. ~Flagged(top.sig)
      BY <2>2 DEF Flagged
    <3> QED  BY <3>6, <3>7
  <2> QED  BY <2>1, <2>2
<1> QED  BY <1>1, <1>5, <1>6, <1>7, NeedReturns

----------------------------------------------------------------------------
(* The steps of access().                                                  *)

\* What every step of access() leaves alone.
AccessOnly == UNCHANGED <<deps, version, setting, now, used, floor>>

\* The part of the invariant that is not about the stack.
ResultsOK == SourcesInv /\ Explained /\ Today /\ ClockInv

\* Steps that change no result; AccessUpdate clears the sticky flag of a signal whose
\* evaluation then runs.
LEMMA AccessQuiet ==
  ASSUME NEW Rank, Ranks(Rank), Safe(Rank), stack # <<>>, top.op = "access",
         AccessOnly, UNCHANGED <<stime, ready, copy>>,
         \/ reply' = reply
         \/ reply'.sig \in Signals /\ reply'.val = Current(reply'.sig),
         \A s \in Cached : Running(s) => Running(s)',
         \A s \in Cached : lastAsk[s] => lastAsk'[s] \/ Running(s)'
  PROVE  /\ ResultsOK'
         /\ \A g \in Frames : Pending(g) /\ FrameOK(g) => FrameOK(g)'
         /\ \A s \in Signals : UpToDate(s)' = UpToDate(s)
<1>1. SourcesInv /\ Explained /\ Today /\ TypeOK
  BY DEF Safe, FreshInv
<1>2. SourcesInv' /\ Explained' /\ Today'
  BY <1>1, ResultsStill DEF AccessOnly
<1>3. ClockInv'
  <2>1. \A s \in Signals : stime'[s] \in {stime[s], now}
    OBVIOUS
  <2> QED  BY <2>1, ClockStill DEF AccessOnly
<1>4. ASSUME NEW g \in Frames, Pending(g), FrameOK(g) PROVE FrameOK(g)'
  <2>1. g.op = "access"
    BY <1>4, AccessAlone
  <2> QED  BY <1>1, <1>4, <2>1, KnowsStill DEF AccessOnly
<1>5. \A s \in Signals : UpToDate(s)' = UpToDate(s)
  BY SameSources DEF AccessOnly
<1> QED  BY <1>2, <1>3, <1>4, <1>5 DEF ResultsOK

\* Steps that change what is known of the signal s of the running access(): its time
\* becomes the present one when they change its result or consume its flag, so that
\* the results made from it before this tick are explained.
LEMMA ResultsMove ==
  ASSUME NEW Rank, Ranks(Rank), Safe(Rank), stack # <<>>, top.op = "access",
         AccessOnly, lastAsk' = lastAsk, NEW s \in Signals, s = top.sig,
         \/ reply' = reply
         \/ reply'.sig \in Signals /\ reply'.val = Current(reply'.sig),
         \A x \in Signals \ {s} : /\ stime'[x] = stime[x] /\ ready'[x] = ready[x]
                                  /\ copy'[x] = copy[x]
                                  /\ Running(x) => Running(x)',
         stime'[s] \in {stime[s], now},
         \A d \in Signals : UpToDate(d) => UpToDate(d)',
         Type[s] = "CONSTANT" => copy'[s] = copy[s],
         s \notin TimeDep /\ Type[s] # "CONSTANT" => ready'[s] = ready[s],
         copy'[s] # copy[s] => stime'[s] = now,
         Flagged(s) /\ ~Flagged(s)' => stime'[s] = now,
         s \in Cached /\ ~Running(s)' =>
           UpToDate(s)' /\ \A d \in Range(Inputs[s]) : UpToDate(d)'
  PROVE  /\ ResultsOK'
         /\ \A g \in Frames : Pending(g) /\ FrameOK(g) => FrameOK(g)'
<1>1. SourcesInv /\ Explained /\ Today /\ ClockInv /\ TypeOK
  BY DEF Safe, FreshInv
<1>2. used' /\ now' = now /\ now \in Nat
      /\ \A x \in Signals : stime[x] \in Nat /\ stime[x] <= now
  <2>1. used /\ now \in Nat /\ \A x \in Signals : stime[x] \in Nat /\ stime[x] <= now
    BY Given
  <2>2. used'
    BY <2>1 DEF AccessOnly
  <2>3. now' = now
    BY DEF AccessOnly
  <2> QED  BY <2>1, <2>2, <2>3
<1>3. /\ \A x \in Cached : x \in Signals /\ x \in TimeDep /\ Type[x] = "FUNCTION"
      /\ \A x \in Signals : \A d \in Range(Inputs[x]) : d \in Signals
  BY <1>1, GraphAssumption, Lists DEF Cached
<1>4. \A x \in Signals : Current(x)' = Current(x)
  BY SameSources DEF AccessOnly
<1>5. SourcesInv'
  BY <1>1 DEF SourcesInv, AccessOnly
<1>6. ClockInv'
  <2>1. \A x \in Signals : stime'[x] \in {stime[x], now}
    OBVIOUS
  <2> QED  BY <2>1, ClockStill DEF AccessOnly
<1>7. ASSUME NEW p \in Cached, UpToDate(p)', \A d \in Range(Inputs[p]) : UpToDate(d)'
      PROVE  (copy[p] = UNION {copy[d] : d \in Range(Inputs[p])})'
  <2>1. copy'[p] = Current(p) /\ \A d \in Range(Inputs[p]) : copy'[d] = Current(d)
    BY <1>3, <1>4, <1>7 DEF UpToDate
  <2>2. Current(p) = UNION {Current(d) : d \in Range(Inputs[p])}
    BY <1>3, CurrentFunction
  <2> QED  BY <2>1, <2>2
<1>8. ASSUME NEW p \in Cached, p # s, ~Running(p)'
      PROVE  /\ ~Running(p) /\ p \in Signals
             /\ stime'[p] = stime[p] /\ ready'[p] = ready[p] /\ copy'[p] = copy[p]
             /\ ~ready[p] /\ stime[p] = now =>
                  UpToDate(p)' /\ \A d \in Range(Inputs[p]) : UpToDate(d)'
  <2>1. p \in Signals \ {s} /\ ~Running(p)
    BY <1>3, <1>8
  <2>2. ~ready[p] /\ stime[p] = now =>
          UpToDate(p) /\ \A d \in Range(Inputs[p]) : UpToDate(d)
    BY <1>1, <2>1 DEF Today
  <2> QED  BY <1>3, <2>1, <2>2
<1>9. Today'
  <2> SUFFICES ASSUME NEW p \in Cached, ~Running(p)', ~ready'[p], stime'[p] = now
               PROVE  UpToDate(p)' /\ \A d \in Range(Inputs[p]) : UpToDate(d)'
    BY <1>2 DEF Today
  <2>1. CASE p = s
    BY <2>1
  <2>2. CASE p # s
    BY <1>8, <2>2
  <2> QED  BY <2>1, <2>2
<1>10. Explained'
  <2> SUFFICES ASSUME NEW p \in Cached, ~Running(p)', ~ready'[p], ~lastAsk'[p],
                      \A d \in Range(Inputs[p]) : ~Flagged(d)' /\ ~(stime'[d] > stime'[p])
               PROVE  (copy[p] = UNION {copy[d] : d \in Range(Inputs[p])})'
    BY DEF Explained
  <2>1. CASE p = s
    BY <1>7, <2>1
  <2>2. CASE p # s /\ stime[p] = now
    BY <1>7, <1>8, <2>2
  <2>3. CASE p # s /\ stime[p] # now
    <3>1. /\ ~Running(p) /\ p \in Signals /\ ~ready[p] /\ ~lastAsk[p]
          /\ stime'[p] = stime[p] /\ copy'[p] = copy[p]
      BY <1>8, <2>3
    <3>2. stime[p] < now /\ stime[p] \in Nat
      BY <1>2, <2>3, <3>1
    <3>3. ASSUME NEW d \in Range(Inputs[p])
          PROVE  ~Flagged(d) /\ ~(stime[d] > stime[p]) /\ copy'[d] = copy[d]
      <4>1. d \in Signals /\ ~Flagged(d)' /\ ~(stime'[d] > stime[p])
        BY <1>3, <3>1
      <4>2. CASE d = s
        <5>1. stime'[s] # now
          BY <1>2, <3>2, <4>1, <4>2
        <5> QED  BY <4>1, <4>2, <5>1
      <4>3. CASE d # s
        <5>1. Flagged(d)' = Flagged(d)
          BY <4>1, <4>3 DEF Flagged, AccessOnly
        <5> QED  BY <4>1, <4>3, <5>1
      <4> QED  BY <4>2, <4>3
    <3>4. copy[p] = UNION {copy[d] : d \in Range(Inputs[p])}
      BY <1>1, <3>1, <3>3 DEF Explained
    <3> QED  BY <3>1, <3>3, <3>4
  <2> QED  BY <2>1, <2>2, <2>3
<1>11. ASSUME NEW g \in Frames, Pending(g), FrameOK(g) PROVE FrameOK(g)'
  <2>1. g.op = "access" /\ g.sig \in Signals \ {s}
    BY <1>11, AccessAlone, FrameUpdates
  <2> QED  BY <1>1, <1>11, <2>1, KnowsMore DEF AccessOnly
<1> QED  BY <1>5, <1>6, <1>9, <1>10, <1>11 DEF ResultsOK

\* A step inside access() that is not a call.
LEMMA AccessGoes ==
  ASSUME NEW Rank, Ranks(Rank), Safe(Rank), stack # <<>>, top.op = "access",
         AccessOnly, NEW f \in Frames, f.op = "access", f.sig = top.sig, Goto(f),
         f.at \notin {"asked", "input"}, FrameOK(f)', ResultsOK',
         \A g \in Frames : Pending(g) /\ FrameOK(g) => FrameOK(g)'
  PROVE  Kept(Rank)
<1>1. TypeOK /\ StackInv /\ Descends(Rank, stack) /\ deps' = deps
  BY DEF Safe, FreshInv, AccessOnly
<1>2. ToldOK(f)'
  BY DEF ToldOK
<1>3. StackInv'
  BY <1>1, <1>2, StackGoes
<1>4. Descends(Rank, stack')
  BY <1>1, DescendsGoto
<1> QED  BY <1>3, <1>4 DEF Kept, FreshInv, ResultsOK

\* access() calls needUpdate() or access() of an input.
LEMMA AccessCalls ==
  ASSUME NEW Rank, Ranks(Rank), Safe(Rank), stack # <<>>, top.op = "access",
         UNCHANGED <<signalVars, clockVars, setVars, reply>>,
         NEW f \in Frames, f.op = "access", f.sig = top.sig,
         NEW c \in Frames, GotoCall(f, c),
         top.at \in RunPlaces => f.at \in RunPlaces,
         c.at \notin {"asked", "input"}, Calls(f, c), FrameOK(f), FrameOK(c),
         \/ Rank[c.sig] < Rank[f.sig]
         \/ f.op = "access" /\ f.at = "asked" /\ c.sig = f.sig
  PROVE  Kept(Rank)
<1>1. TypeOK /\ StackInv /\ Descends(Rank, stack) /\ IsRanking(Rank)
  BY DEF Safe, FreshInv, Ranks
<1>2. /\ UNCHANGED <<stime, ready, deps, copy, version, setting, now>>
      /\ lastAsk' = lastAsk /\ reply' = reply /\ AccessOnly
  BY DEF signalVars, clockVars, setVars, AccessOnly
<1>3. \A s \in Cached : Running(s) => Running(s)'
  BY <1>1, RunsOn
<1>4. ResultsOK' /\ \A g \in Frames : Pending(g) /\ FrameOK(g) => FrameOK(g)'
  BY <1>2, <1>3, AccessQuiet
<1>5. FrameOK(f)' /\ FrameOK(c)'
  BY <1>1, <1>2, KnowsStill
<1>6. StackInv'
  BY <1>1, <1>2, <1>4, <1>5, StackCalls
<1>7. Descends(Rank, stack')
  BY <1>1, DescendsCall
<1> QED  BY <1>4, <1>6, <1>7 DEF Kept, FreshInv, ResultsOK

\* access() returns the result that the sources make.
LEMMA AccessGives ==
  ASSUME NEW Rank, Ranks(Rank), Safe(Rank), stack # <<>>, top.op = "access",
         AccessOnly, NEW s \in Signals, s = top.sig, NEW v, v = Current(s),
         ReturnValue(v), UpToDate(s)', ResultsOK',
         \A g \in Frames : Pending(g) /\ FrameOK(g) => FrameOK(g)'
  PROVE  Kept(Rank)
<1>1. TypeOK /\ StackInv /\ Descends(Rank, stack) /\ deps' = deps
  BY DEF Safe, FreshInv, AccessOnly
<1>2. stack' = Tail(stack) /\ (~outermost => value' = v)
  BY DEF ReturnValue
<1>3. Current(s)' = Current(s)
  BY SameSources DEF AccessOnly
<1>4. ASSUME NEW g \in Frames, ~outermost, Calls(g, top) PROVE ToldOK(g)'
  <2>1. g.op = "access" /\ g.at = "input" /\ s = Inputs[g.sig][g.it - 1]
    BY <1>4 DEF Calls
  <2>2. value' = Current(s)'
    BY <1>2, <1>3, <1>4
  <2> QED  BY <2>1, <2>2 DEF ToldOK
<1>5. StackInv'
  BY <1>1, <1>2, <1>4, StackReturns
<1>6. Descends(Rank, stack')
  BY <1>1, <1>2, DescendsReturn
<1> QED  BY <1>5, <1>6 DEF Kept, FreshInv, ResultsOK

\* The inputs that a Tfunction has read: none when it starts, ...
LEMMA GatheredNone ==
  ASSUME NEW s \in Signals
  PROVE  Gathered(s, 1, {})
<1>1. DOMAIN Inputs[s] = 1 .. Len(Inputs[s])
  BY GraphAssumption, LenProperties
<1>2. {j \in DOMAIN Inputs[s] : j < 1} = {}
  BY <1>1
<1>3. 1 .. 1 - 1 = {}
  OBVIOUS
<1> QED  BY <1>2, <1>3 DEF Gathered

\* ... one more after each access() that returns, ...
LEMMA GatheredNext ==
  ASSUME NEW s \in Signals, NEW n \in Nat, n \in DOMAIN Inputs[s], NEW v,
         Gathered(s, n, v), NEW d, d = Inputs[s][n], UpToDate(d)
  PROVE  Gathered(s, n + 1, v \cup Current(d))
<1>1. DOMAIN Inputs[s] = 1 .. Len(Inputs[s]) /\ Len(Inputs[s]) \in Nat
  BY GraphAssumption, LenProperties
<1>2. {j \in DOMAIN Inputs[s] : j < n + 1} = {j \in DOMAIN Inputs[s] : j < n} \cup {n}
  BY <1>1
<1>3. \A k \in 1 .. (n + 1) - 1 : k \in 1 .. n - 1 \/ k = n
  OBVIOUS
<1>4. \A k \in 1 .. (n + 1) - 1 : k \in DOMAIN Inputs[s] => UpToDate(Inputs[s][k])
  BY <1>3 DEF Gathered
<1> DEFINE A == {j \in DOMAIN Inputs[s] : j < n}
<1>5. v = UNION {Current(Inputs[s][k]) : k \in A}
  BY DEF Gathered
<1> HIDE DEF A
<1>6. v \cup Current(d) = UNION {Current(Inputs[s][k]) : k \in A \cup {n}}
  BY <1>5
<1> QED  BY <1>2, <1>4, <1>6 DEF Gathered, A

\* ... and all of them when it returns.
LEMMA GatheredAll ==
  ASSUME NEW s \in Signals, Type[s] = "FUNCTION", NEW n \in Nat, n > Len(Inputs[s]),
         NEW v, Gathered(s, n, v)
  PROVE  v = Current(s) /\ \A d \in Range(Inputs[s]) : UpToDate(d)
<1>1. DOMAIN Inputs[s] = 1 .. Len(Inputs[s]) /\ Len(Inputs[s]) \in Nat
  BY GraphAssumption, LenProperties
<1>2. {j \in DOMAIN Inputs[s] : j < n} = DOMAIN Inputs[s]
  BY <1>1
<1>3. v = UNION {Current(Inputs[s][k]) : k \in DOMAIN Inputs[s]}
  BY <1>2 DEF Gathered
<1>4. \A k \in DOMAIN Inputs[s] : k \in 1 .. n - 1
  BY <1>1
<1>5. \A k \in DOMAIN Inputs[s] : UpToDate(Inputs[s][k])
  BY <1>4 DEF Gathered
<1>6. Current(s) = UNION {Current(d) : d \in Range(Inputs[s])}
  BY CurrentFunction
<1>7. v = Current(s)
  BY <1>3, <1>6 DEF Range
<1> QED  BY <1>5, <1>7 DEF Range

LEMMA KeepsAsk ==
  ASSUME Watchful, NEW Rank, Ranks(Rank), Safe(Rank), AccessAsk
  PROVE  Kept(Rank)
<1>1. stack # <<>> /\ top.op = "access" /\ top.at = "ask"
      /\ UNCHANGED <<signalVars, clockVars, setVars, reply>>
  BY DEF AccessAsk, At
<1>2. /\ top \in Frames /\ FrameOK(top)
  BY <1>1, Given
<1>3. PICK s \in Signals : s = top.sig
  BY <1>1, Given
<1>4. PICK f \in Frames : f = [top EXCEPT !.at = "asked"]
  BY <1>2, FrameUpdates DEF Places
<1>5. f.op = "access" /\ f.sig = s /\ f.at = "asked" /\ f.it = top.it /\ f.acc = top.acc
  <2>1. "asked" \in Places
    BY DEF Places
  <2> QED  BY <1>1, <1>2, <1>3, <1>4, <2>1, FrameFields
<1> DEFINE c == CallNeed(s)
<1>6. GotoCall(f, c)
  BY <1>3, <1>4 DEF AccessAsk
<1>7. c \in Frames /\ c.op = "need" /\ c.sig = s /\ c.at = "enter" /\ FrameOK(c)
  BY CallFields
<1> HIDE DEF c
<1>8. Calls(f, c)
  BY <1>5, <1>7 DEF Calls
<1>9. FrameOK(f)
  BY <1>1, <1>2, <1>3, <1>5 DEF FrameOK, AccessFrame, RunPlaces
<1>10. top.at \notin RunPlaces
  BY <1>1 DEF RunPlaces
<1> QED  BY <1>1, <1>3, <1>5, <1>6, <1>7, <1>8, <1>9, <1>10, AccessCalls

LEMMA KeepsUpdate ==
  ASSUME Watchful, NEW Rank, Ranks(Rank), Safe(Rank), AccessUpdate
  PROVE  Kept(Rank)
<1>1. /\ stack # <<>> /\ top.op = "access" /\ top.at = "asked"
      /\ lastAsk' = [lastAsk EXCEPT ![top.sig] = FALSE]
      /\ AccessOnly /\ UNCHANGED <<stime, ready, copy>> /\ reply' = reply
  BY DEF AccessUpdate, At, AccessOnly, clockVars, setVars
<1>2. top \in Frames /\ FrameOK(top)
  BY <1>1, Given
<1>3. PICK s \in Signals : s = top.sig
  BY <1>1, Given
<1>4. PICK f \in Frames : f = [top EXCEPT !.at = "run"]
  BY <1>2, FrameUpdates DEF Places
<1>5. f.op = "access" /\ f.sig = s /\ f.at = "run" /\ f.it = top.it /\ f.acc = top.acc
  <2>1. "run" \in Places
    BY DEF Places
  <2> QED  BY <1>1, <1>2, <1>3, <1>4, <2>1, FrameFields
<1>6. Goto(f)
  BY <1>4 DEF AccessUpdate
<1>7. f.it = 1 /\ f.acc = {}
  BY <1>1, <1>2, <1>5 DEF FrameOK, AccessFrame
<1>8. FrameOK(f)'
  BY <1>5, <1>7 DEF FrameOK, AccessFrame, RunPlaces
<1>9. (\A x \in Cached : Running(x) => Running(x)') /\ Running(s)'
  BY <1>1, <1>3, <1>5, <1>6, RunsOn DEF Safe, RunPlaces
<1>10. \A x \in Cached : lastAsk[x] => lastAsk'[x] \/ Running(x)'
  <2>1. lastAsk \in [Signals -> BOOLEAN] /\ \A x \in Cached : x \in Signals
    BY GraphAssumption DEF Safe, TypeOK, Cached
  <2>2. \A x \in Cached : x # s => lastAsk'[x] = lastAsk[x]
    BY <1>1, <1>3, <2>1
  <2> QED  BY <1>9, <2>2
<1>11. ResultsOK' /\ \A g \in Frames : Pending(g) /\ FrameOK(g) => FrameOK(g)'
  BY <1>1, <1>9, <1>10, AccessQuiet
<1> QED  BY <1>1, <1>3, <1>5, <1>6, <1>8, <1>11, AccessGoes

LEMMA KeepsCached ==
  ASSUME Watchful, NEW Rank, Ranks(Rank), Safe(Rank), AccessCached
  PROVE  Kept(Rank)
<1>1. /\ stack # <<>> /\ top.op = "access" /\ top.at = "asked" /\ ~answer
      /\ ReturnValue(copy[top.sig])
      /\ AccessOnly /\ UNCHANGED <<stime, ready, copy, lastAsk>>
  BY DEF AccessCached, At, AccessOnly, signalVars, clockVars, setVars
<1>2. PICK s \in Signals : s = top.sig
  BY <1>1, Given
<1>3. UpToDate(s)
  BY <1>1, <1>2, Given DEF ToldOK
<1>4. copy[s] = Current(s) /\ ReturnValue(copy[s])
  BY <1>1, <1>2, <1>3 DEF UpToDate
<1>5. \/ reply' = reply
      \/ reply'.sig \in Signals /\ reply'.val = Current(reply'.sig)
  BY <1>2, <1>4 DEF ReturnValue
<1>6. \A x \in Cached : Running(x) => Running(x)'
  <2>1. stack' = Tail(stack) /\ top.at \notin RunPlaces
    BY <1>1 DEF ReturnValue, RunPlaces
  <2> QED  BY <1>1, <2>1, RunsOver DEF Safe
<1>7. /\ ResultsOK' /\ \A g \in Frames : Pending(g) /\ FrameOK(g) => FrameOK(g)'
      /\ UpToDate(s)'
  BY <1>1, <1>3, <1>5, <1>6, AccessQuiet
<1> QED  BY <1>1, <1>2, <1>4, <1>7, AccessGives

LEMMA KeepsReads ==
  ASSUME Watchful, NEW Rank, Ranks(Rank), Safe(Rank), BodyReads
  PROVE  Kept(Rank)
<1>1. /\ stack # <<>> /\ top.op = "access" /\ top.at = "body"
      /\ top.it <= Len(Inputs[top.sig])
      /\ UNCHANGED <<signalVars, clockVars, setVars, reply>>
  BY DEF BodyReads, At
<1>2. /\ top \in Frames /\ FrameOK(top) /\ top.it \in Nat \ {0}
  BY <1>1, Given
<1>3. PICK s \in Signals : s = top.sig
  BY <1>1, Given
<1>4. top.it \in DOMAIN Inputs[s] /\ Inputs[s] \in Seq(Signals)
  <2>1. Inputs[s] \in Seq(Signals)
    BY GraphAssumption
  <2> QED  BY <1>1, <1>2, <1>3, <2>1, LenProperties
<1>5. PICK d \in Signals : d = Inputs[s][top.it]
  BY <1>4, ElementOfSeq, LenProperties
<1> DEFINE next == [top EXCEPT !.it = @ + 1]
<1>6. PICK f \in Frames : f = [next EXCEPT !.at = "input"]
  <2>1. next \in Frames /\ "input" \in Places
    BY <1>2, FrameUpdates DEF Places
  <2> HIDE DEF next
  <2> QED  BY <2>1, FrameUpdates
<1>7. f.op = "access" /\ f.sig = s /\ f.at = "input" /\ f.it = top.it + 1
      /\ f.acc = top.acc
  <2>1. "input" \in Places
    BY DEF Places
  <2>2. /\ next \in Frames /\ next.op = top.op /\ next.sig = top.sig
        /\ next.it = top.it + 1 /\ next.acc = top.acc
    <3>1. top = [op |-> top.op, sig |-> top.sig, at |-> top.at, it |-> top.it,
                 acc |-> top.acc]
      BY <1>2 DEF Frames
    <3> QED  BY <1>2, <3>1, FrameUpdates
  <2> HIDE DEF next
  <2> QED  BY <1>1, <1>3, <1>6, <2>1, <2>2, FrameFields
<1> DEFINE c == CallAccess(d)
<1>8. GotoCall(f, c)
  BY <1>3, <1>5, <1>6 DEF BodyReads, Watchful
<1>9. /\ c \in Frames /\ c.op = "access" /\ c.sig = d /\ FrameOK(c)
      /\ c.at \notin {"asked", "input"}
  BY CallFields
<1> HIDE DEF c, next
<1>10. f.it - 1 = top.it
  BY <1>2, <1>7
<1>11. Calls(f, c)
  BY <1>4, <1>5, <1>7, <1>9, <1>10 DEF Calls
<1>12. FrameOK(f)
  <2>1. AccessFrame(top)
    BY <1>1, <1>2 DEF FrameOK
  <2>2. Type[s] = "FUNCTION" /\ stime[s] = now /\ Gathered(s, top.it, top.acc)
    BY <1>1, <1>3, <2>1 DEF AccessFrame
  <2> QED  BY <1>4, <1>7, <1>10, <2>2 DEF FrameOK, AccessFrame, RunPlaces
<1>13. Rank[c.sig] < Rank[f.sig]
  BY <1>4, <1>5, <1>7, <1>9 DEF Ranks, IsRanking
<1>14. f.at \in RunPlaces
  BY <1>7 DEF RunPlaces
<1> QED  BY <1>1, <1>3, <1>7, <1>8, <1>9, <1>11, <1>12, <1>13, <1>14, AccessCalls

LEMMA KeepsGets ==
  ASSUME Watchful, NEW Rank, Ranks(Rank), Safe(Rank), BodyGets
  PROVE  Kept(Rank)
<1>1. /\ stack # <<>> /\ top.op = "access" /\ top.at = "input"
      /\ AccessOnly /\ UNCHANGED <<stime, ready, copy, lastAsk>> /\ reply' = reply
  BY DEF BodyGets, At, AccessOnly, signalVars, clockVars, setVars
<1>2. /\ top \in Frames /\ AccessFrame(top) /\ ToldOK(top)
      /\ top.it \in Nat \ {0} /\ top.acc \in Values /\ value \in Values
  BY <1>1, Given DEF FrameOK, Safe, TypeOK
<1>3. PICK s \in Signals : s = top.sig
  BY <1>1, Given
<1>4. top.acc \cup value \in Values /\ "body" \in Places
  BY <1>2, ValueTypes DEF Places
<1>5. PICK f \in Frames : /\ Goto(f) /\ f.op = top.op /\ f.sig = top.sig
                          /\ f.at = "body" /\ f.it = top.it
                          /\ f.acc = top.acc \cup value
  <2>1. PICK t \in Frames, v \in Values : t = top /\ v = top.acc \cup value
    BY <1>2, <1>4
  <2> DEFINE h == [t EXCEPT !.at = "body", !.acc = v]
  <2>2. t = [op |-> t.op, sig |-> t.sig, at |-> t.at, it |-> t.it, acc |-> t.acc]
    BY DEF Frames
  <2>3. h \in Frames
    BY <1>4, FrameUpdates
  <2>4. h.op = t.op /\ h.sig = t.sig /\ h.at = "body" /\ h.it = t.it /\ h.acc = v
    BY <2>2
  <2>5. Goto(h)
    BY <2>1 DEF BodyGets
  <2> HIDE DEF h
  <2> QED  BY <2>1, <2>3, <2>4, <2>5
<1>6. f.op = "access" /\ f.sig = s
  BY <1>1, <1>3, <1>5
<1>7. f.at = "body" /\ f.it = top.it /\ f.acc = top.acc \cup value /\ Goto(f)
  BY <1>5
<1>8. PICK n \in Nat : n = top.it - 1 /\ n + 1 = top.it
  BY <1>2
<1>9. Type[s] = "FUNCTION" /\ stime[s] = now /\ n \in DOMAIN Inputs[s]
      /\ Gathered(s, n, top.acc)
  BY <1>1, <1>2, <1>3, <1>8 DEF AccessFrame
<1>10. UpToDate(Inputs[s][n]) /\ value = Current(Inputs[s][n])
  BY <1>1, <1>2, <1>3, <1>8 DEF ToldOK
<1>11. Gathered(s, n + 1, top.acc \cup value)
  BY <1>9, <1>10, GatheredNext
<1>12. FrameOK(f)
  BY <1>6, <1>7, <1>8, <1>9, <1>11 DEF FrameOK, AccessFrame, RunPlaces
<1>13. \A x \in Cached : Running(x) => Running(x)'
  BY <1>1, <1>3, <1>6, <1>7, RunsOn DEF Safe, RunPlaces
<1>14. FrameOK(f)'
  BY <1>1, <1>6, <1>12, KnowsStill DEF AccessOnly, Safe
<1>15. ResultsOK' /\ \A g \in Frames : Pending(g) /\ FrameOK(g) => FrameOK(g)'
  BY <1>1, <1>13, AccessQuiet
<1> QED  BY <1>1, <1>3, <1>6, <1>7, <1>14, <1>15, AccessGoes

LEMMA KeepsReadConstant ==
  ASSUME Watchful, NEW Rank, Ranks(Rank), Safe(Rank), ReadConstant
  PROVE  Kept(Rank)
<1>1. /\ stack # <<>> /\ top.op = "access" /\ top.at = "copy"
      /\ AccessOnly /\ UNCHANGED <<stime, ready, copy, lastAsk>> /\ reply' = reply
  BY DEF ReadConstant, At, AccessOnly, signalVars, clockVars, setVars
<1>2. top \in Frames /\ AccessFrame(top) /\ copy[top.sig] \in Values
  <2>1. top \in Frames /\ FrameOK(top) /\ top.sig \in Signals
    BY <1>1, Given
  <2> QED  BY <1>1, <2>1 DEF FrameOK, Safe, TypeOK
<1>3. PICK s \in Signals : s = top.sig
  BY <1>1, Given
<1>4. PICK v \in Values : v = copy[s]
  BY <1>2, <1>3
<1>5. PICK f \in Frames : /\ Goto(f) /\ f.op = top.op /\ f.sig = top.sig
                          /\ f.at = "ran" /\ f.acc = v
  <2>1. PICK t \in Frames : t = top
    BY <1>2
  <2> DEFINE h == [t EXCEPT !.at = "ran", !.acc = v]
  <2>2. t = [op |-> t.op, sig |-> t.sig, at |-> t.at, it |-> t.it, acc |-> t.acc]
    BY DEF Frames
  <2>3. h \in Frames
    BY FrameUpdates DEF Places
  <2>4. h.op = t.op /\ h.sig = t.sig /\ h.at = "ran" /\ h.acc = v
    BY <2>2
  <2>5. Goto(h)
    BY <1>3, <1>4, <2>1 DEF ReadConstant
  <2> HIDE DEF h
  <2> QED  BY <2>1, <2>3, <2>4, <2>5
<1>6. f.op = "access" /\ f.sig = s
  BY <1>1, <1>3, <1>5
<1>7. f.at = "ran" /\ f.acc = v /\ Goto(f)
  BY <1>5
<1>8. Type[s] = "CONSTANT" /\ ~ready[s]
  BY <1>1, <1>2, <1>3 DEF AccessFrame
<1>9. UpToDate(s)
  <2>1. s \notin Cached
    BY <1>8 DEF Cached
  <2> QED  BY <1>1, <1>8, <2>1, ConstantFound
<1>10. FrameOK(f)
  BY <1>4, <1>6, <1>7, <1>8, <1>9 DEF FrameOK, AccessFrame, RunPlaces
<1>11. \A x \in Cached : Running(x) => Running(x)'
  BY <1>1, <1>3, <1>6, <1>7, RunsOn DEF Safe, RunPlaces
<1>12. FrameOK(f)'
  BY <1>1, <1>6, <1>10, KnowsStill DEF AccessOnly, Safe
<1>13. ResultsOK' /\ \A g \in Frames : Pending(g) /\ FrameOK(g) => FrameOK(g)'
  BY <1>1, <1>11, AccessQuiet
<1> QED  BY <1>1, <1>3, <1>6, <1>7, <1>12, <1>13, AccessGoes

\* What has been read stays so as long as no result gets older.
LEMMA GatheredStill ==
  ASSUME NEW s \in Signals, NEW n, NEW v, Gathered(s, n, v), version' = version,
         \A d \in Signals : UpToDate(d) => UpToDate(d)'
  PROVE  Gathered(s, n, v)'
<1>1. \A k \in DOMAIN Inputs[s] : Inputs[s][k] \in Signals
  BY GraphAssumption, ElementOfSeq, LenProperties
<1>2. \A x \in Signals : Current(x)' = Current(x)
  BY SameSources
<1> QED  BY <1>1, <1>2 DEF Gathered

LEMMA KeepsConstant ==
  ASSUME Watchful, NEW Rank, Ranks(Rank), Safe(Rank), RunConstant
  PROVE  Kept(Rank)
<1>1. /\ stack # <<>> /\ top.op = "access" /\ top.at = "run"
      /\ AccessOnly /\ lastAsk' = lastAsk /\ copy' = copy /\ reply' = reply
  BY DEF RunConstant, At, AccessOnly, clockVars, setVars
<1>2. top \in Frames
  BY <1>1, Given
<1>3. PICK s \in Signals : s = top.sig
  BY <1>1, Given
<1>4. PICK f \in Frames : f = [top EXCEPT !.at = "copy"]
  BY <1>2, FrameUpdates DEF Places
<1>5. f.op = "access" /\ f.sig = s /\ f.at = "copy"
  <2>1. "copy" \in Places
    BY DEF Places
  <2> QED  BY <1>1, <1>2, <1>3, <1>4, <2>1, FrameFields
<1>6. Goto(f)
  BY <1>4 DEF RunConstant
<1>7. stime \in [Signals -> Nat] /\ ready \in [Signals -> BOOLEAN]
  BY DEF Safe, TypeOK
<1>8. /\ Type[s] = "CONSTANT" /\ ready' = [ready EXCEPT ![s] = FALSE]
      /\ stime' = IF ready[s] THEN [stime EXCEPT ![s] = now] ELSE stime
  BY <1>3 DEF RunConstant
<1>9. /\ \A x \in Signals \ {s} : /\ stime'[x] = stime[x] /\ ready'[x] = ready[x]
                                  /\ copy'[x] = copy[x]
      /\ stime'[s] \in {stime[s], now} /\ (ready[s] => stime'[s] = now) /\ ~ready'[s]
  BY <1>1, <1>7, <1>8
<1>10. \A x : Running(x) => Running(x)'
  BY <1>1, <1>3, <1>5, <1>6, RunsOn DEF Safe, RunPlaces
<1>11. \A d \in Signals : UpToDate(d) => UpToDate(d)'
  BY <1>1, SameSources DEF AccessOnly
<1>12. Flagged(s) => stime'[s] = now
  BY <1>1, <1>9, Given DEF Flagged
<1>13. s \notin Cached /\ Type[s] = "CONSTANT" /\ copy'[s] = copy[s]
  BY <1>1, <1>8 DEF Cached
<1>14. ResultsOK' /\ \A g \in Frames : Pending(g) /\ FrameOK(g) => FrameOK(g)'
  BY <1>1, <1>3, <1>9, <1>10, <1>11, <1>12, <1>13, ResultsMove
<1>15. FrameOK(f)'
  BY <1>5, <1>8, <1>9 DEF FrameOK, AccessFrame, RunPlaces
<1> QED  BY <1>1, <1>3, <1>5, <1>6, <1>14, <1>15, AccessGoes

LEMMA KeepsReference ==
  ASSUME Watchful, NEW Rank, Ranks(Rank), Safe(Rank), RunReference
  PROVE  Kept(Rank)
<1>1. /\ stack # <<>> /\ top.op = "access" /\ top.at = "run"
      /\ AccessOnly /\ lastAsk' = lastAsk /\ ready' = ready /\ reply' = reply
  BY DEF RunReference, At, AccessOnly, clockVars, setVars
<1>2. top \in Frames
  BY <1>1, Given
<1>3. PICK s \in Signals : s = top.sig
  BY <1>1, Given
<1>4. /\ stime \in [Signals -> Nat] /\ copy \in [Signals -> Values]
      /\ version \in [Signals -> Nat]
  BY DEF Safe, TypeOK
<1>5. PICK v \in Values : v = {<<s, version[s]>>}
  BY <1>4, ValueTypes
<1>6. PICK f \in Frames : /\ Goto(f) /\ f.op = top.op /\ f.sig = top.sig
                          /\ f.at = "ran" /\ f.acc = v
  <2>1. PICK t \in Frames : t = top
    BY <1>2
  <2> DEFINE h == [t EXCEPT !.at = "ran", !.acc = v]
  <2>2. t = [op |-> t.op, sig |-> t.sig, at |-> t.at, it |-> t.it, acc |-> t.acc]
    BY DEF Frames
  <2>3. h \in Frames
    BY FrameUpdates DEF Places
  <2>4. h.op = t.op /\ h.sig = t.sig /\ h.at = "ran" /\ h.acc = v
    BY <2>2
  <2>5. Goto(h)
    BY <1>3, <1>5, <2>1 DEF RunReference
  <2> HIDE DEF h
  <2> QED  BY <2>1, <2>3, <2>4, <2>5
<1>7. f.op = "access" /\ f.sig = s /\ f.at = "ran" /\ f.acc = v /\ Goto(f)
  BY <1>1, <1>3, <1>6
<1>8. /\ Type[s] = "REFERENCE" /\ copy' = [copy EXCEPT ![s] = v]
      /\ stime' = [stime EXCEPT ![s] = now]
  BY <1>3, <1>5 DEF RunReference, SetTcopy
<1>9. /\ \A x \in Signals \ {s} : /\ stime'[x] = stime[x] /\ ready'[x] = ready[x]
                                  /\ copy'[x] = copy[x]
      /\ stime'[s] = now /\ copy'[s] = v
  BY <1>1, <1>4, <1>8
<1>10. \A x : Running(x) => Running(x)'
  BY <1>1, <1>3, <1>7, RunsOn DEF Safe, RunPlaces
<1>11. v = Current(s)
  BY <1>5, <1>8, CurrentSource DEF Sources
<1>12. UpToDate(s)' /\ \A d \in Signals : UpToDate(d) => UpToDate(d)'
  <2>1. \A x \in Signals : Current(x)' = Current(x)
    BY <1>1, SameSources DEF AccessOnly
  <2> QED  BY <1>9, <1>11, <2>1 DEF UpToDate
<1>13. s \notin Cached /\ Type[s] # "CONSTANT" /\ Type[s] # "FUNCTION"
  BY <1>8 DEF Cached
<1>14. ready'[s] = ready[s]
  BY <1>1
<1>15. ResultsOK' /\ \A g \in Frames : Pending(g) /\ FrameOK(g) => FrameOK(g)'
  BY <1>1, <1>3, <1>9, <1>10, <1>12, <1>13, <1>14, ResultsMove
<1>16. FrameOK(f)'
  BY <1>7, <1>9, <1>12, <1>13 DEF FrameOK, AccessFrame, RunPlaces
<1> QED  BY <1>1, <1>3, <1>7, <1>15, <1>16, AccessGoes

LEMMA KeepsFunction ==
  ASSUME Watchful, NEW Rank, Ranks(Rank), Safe(Rank), RunFunction
  PROVE  Kept(Rank)
<1>1. /\ stack # <<>> /\ top.op = "access" /\ top.at = "run" /\ AccessOnly
      /\ lastAsk' = lastAsk /\ ready' = ready /\ copy' = copy /\ reply' = reply
  BY DEF RunFunction, At, AccessOnly, clockVars, setVars
<1>2. top \in Frames /\ FrameOK(top)
  BY <1>1, Given
<1>3. PICK s \in Signals : s = top.sig
  BY <1>1, Given
<1>4. PICK f \in Frames : f = [top EXCEPT !.at = "body"]
  BY <1>2, FrameUpdates DEF Places
<1>5. f.op = "access" /\ f.sig = s /\ f.at = "body" /\ f.it = top.it /\ f.acc = top.acc
  <2>1. "body" \in Places
    BY DEF Places
  <2> QED  BY <1>1, <1>2, <1>3, <1>4, <2>1, FrameFields
<1>6. f.it = 1 /\ f.acc = {}
  BY <1>1, <1>2, <1>5 DEF FrameOK, AccessFrame
<1>7. Goto(f)
  BY <1>4 DEF RunFunction
<1>8. Type[s] = "FUNCTION" /\ stime' = [stime EXCEPT ![s] = now]
      /\ stime \in [Signals -> Nat]
  BY <1>3 DEF RunFunction, Safe, TypeOK
<1>9. /\ \A x \in Signals \ {s} : /\ stime'[x] = stime[x] /\ ready'[x] = ready[x]
                                  /\ copy'[x] = copy[x]
      /\ stime'[s] = now /\ copy'[s] = copy[s]
  BY <1>1, <1>8
<1>10. (\A x : Running(x) => Running(x)') /\ Running(s)'
  BY <1>1, <1>3, <1>5, <1>7, RunsOn DEF Safe, RunPlaces
<1>11. \A d \in Signals : UpToDate(d) => UpToDate(d)'
  BY <1>1, SameSources DEF AccessOnly
<1>12. ready'[s] = ready[s]
  BY <1>1
<1>13. ResultsOK' /\ \A g \in Frames : Pending(g) /\ FrameOK(g) => FrameOK(g)'
  BY <1>1, <1>3, <1>9, <1>10, <1>11, <1>12, ResultsMove
<1>14. Gathered(s, 1, {})'
  BY <1>1, <1>11, GatheredNone, GatheredStill DEF AccessOnly
<1>15. FrameOK(f)'
  <2>1. now' = now
    BY <1>1 DEF AccessOnly
  <2> QED  BY <1>5, <1>6, <1>8, <1>9, <1>14, <2>1 DEF FrameOK, AccessFrame, RunPlaces
<1> QED  BY <1>1, <1>3, <1>5, <1>7, <1>13, <1>15, AccessGoes

LEMMA KeepsEnds ==
  ASSUME Watchful, NEW Rank, Ranks(Rank), Safe(Rank), BodyEnds
  PROVE  Kept(Rank)
<1>1. /\ stack # <<>> /\ top.op = "access" /\ top.at = "body" /\ AccessOnly
      /\ top.it > Len(Inputs[top.sig])
      /\ lastAsk' = lastAsk /\ ready' = ready /\ stime' = stime /\ reply' = reply
  BY DEF BodyEnds, At, AccessOnly, clockVars, setVars
<1>2. top \in Frames /\ AccessFrame(top) /\ top.it \in Nat \ {0} /\ top.acc \in Values
  BY <1>1, Given DEF FrameOK
<1>3. PICK s \in Signals : s = top.sig
  BY <1>1, Given
<1>4. PICK f \in Frames : f = [top EXCEPT !.at = "ran"]
  BY <1>2, FrameUpdates DEF Places
<1>5. f.op = "access" /\ f.sig = s /\ f.at = "ran" /\ f.acc = top.acc
  <2>1. "ran" \in Places
    BY DEF Places
  <2> QED  BY <1>1, <1>2, <1>3, <1>4, <2>1, FrameFields
<1>6. Goto(f)
  BY <1>4 DEF BodyEnds
<1>7. copy' = [copy EXCEPT ![s] = f.acc] /\ copy \in [Signals -> Values]
  BY <1>3, <1>5 DEF BodyEnds, SetTcopy, Safe, TypeOK
<1>8. Type[s] = "FUNCTION" /\ stime[s] = now /\ Gathered(s, top.it, top.acc)
  BY <1>1, <1>2, <1>3 DEF AccessFrame
<1>9. f.acc = Current(s) /\ \A d \in Range(Inputs[s]) : UpToDate(d)
  BY <1>1, <1>2, <1>3, <1>5, <1>8, GatheredAll
<1>10. /\ \A x \in Signals \ {s} : /\ stime'[x] = stime[x] /\ ready'[x] = ready[x]
                                   /\ copy'[x] = copy[x]
       /\ stime'[s] = now /\ copy'[s] = f.acc
  BY <1>1, <1>7, <1>8
<1>11. (\A x : Running(x) => Running(x)') /\ Running(s)'
  BY <1>1, <1>3, <1>5, <1>6, RunsOn DEF Safe, RunPlaces
<1>12. UpToDate(s)' /\ \A d \in Signals : UpToDate(d) => UpToDate(d)'
  <2>1. \A x \in Signals : Current(x)' = Current(x)
    BY <1>1, SameSources DEF AccessOnly
  <2> QED  BY <1>9, <1>10, <2>1 DEF UpToDate
<1>13. \A d \in Range(Inputs[s]) : UpToDate(d)'
  <2>1. \A d \in Range(Inputs[s]) : d \in Signals
    BY Lists DEF Safe, FreshInv
  <2> QED  BY <1>9, <1>12, <2>1
<1>14. ready'[s] = ready[s]
  BY <1>1
<1>15. ResultsOK' /\ \A g \in Frames : Pending(g) /\ FrameOK(g) => FrameOK(g)'
  BY <1>1, <1>3, <1>8, <1>10, <1>11, <1>12, <1>13, <1>14, ResultsMove
<1>16. FrameOK(f)'
  <2>1. now' = now
    BY <1>1 DEF AccessOnly
  <2> QED  BY <1>5, <1>8, <1>10, <1>12, <1>13, <2>1 DEF FrameOK, AccessFrame, RunPlaces
<1> QED  BY <1>1, <1>3, <1>5, <1>6, <1>15, <1>16, AccessGoes

LEMMA KeepsReturns ==
  ASSUME Watchful, NEW Rank, Ranks(Rank), Safe(Rank), AccessReturns
  PROVE  Kept(Rank)
<1>1. /\ stack # <<>> /\ top.op = "access" /\ top.at = "ran" /\ AccessOnly
      /\ ReturnValue(top.acc)
      /\ lastAsk' = lastAsk /\ copy' = copy /\ stime' = stime
  BY DEF AccessReturns, At, AccessOnly, clockVars, setVars
<1>2. top \in Frames /\ AccessFrame(top)
  BY <1>1, Given DEF FrameOK
<1>3. PICK s \in Signals : s = top.sig
  BY <1>1, Given
<1>4. /\ top.acc = copy[s] /\ UpToDate(s)
      /\ Type[s] = "CONSTANT" => ~ready[s]
      /\ Type[s] = "FUNCTION" => \A d \in Range(Inputs[s]) : UpToDate(d)
  BY <1>1, <1>2, <1>3 DEF AccessFrame
<1>5. PICK v : v = Current(s)
  OBVIOUS
<1>6. ReturnValue(v)
  BY <1>1, <1>4, <1>5 DEF UpToDate
<1>7. /\ ready' = IF s \in TimeDep THEN [ready EXCEPT ![s] = FALSE] ELSE ready
      /\ ready \in [Signals -> BOOLEAN]
  BY <1>3 DEF AccessReturns, Safe, TypeOK
<1>8. /\ \A x \in Signals \ {s} : /\ stime'[x] = stime[x] /\ ready'[x] = ready[x]
                                  /\ copy'[x] = copy[x]
      /\ stime'[s] = stime[s] /\ copy'[s] = copy[s]
      /\ s \notin TimeDep => ready'[s] = ready[s]
  BY <1>1, <1>7
<1>9. \A x \in Signals \ {s} : Running(x) => Running(x)'
  <2>1. stack' = Tail(stack)
    BY <1>6 DEF ReturnValue
  <2> QED  BY <1>1, <1>3, <2>1, RunsOver DEF Safe
<1>10. \A d \in Signals : UpToDate(d) => UpToDate(d)'
  BY <1>1, SameSources DEF AccessOnly
<1>11. s \in Cached => UpToDate(s)' /\ \A d \in Range(Inputs[s]) : UpToDate(d)'
  <2>1. \A d \in Range(Inputs[s]) : d \in Signals
    BY Lists DEF Safe, FreshInv
  <2> QED  BY <1>4, <1>10, <2>1 DEF Cached
<1>12. Flagged(s) => Flagged(s)'
  <2> SUFFICES ASSUME Flagged(s) PROVE Flagged(s)'
    OBVIOUS
  <2>1. s \notin Cached /\ ready[s]
    BY <1>1, Given DEF Flagged
  <2>2. s \notin TimeDep
    <3>1. Type[s] \in {"CONSTANT", "REFERENCE", "FUNCTION"}
      BY GraphAssumption
    <3> QED  BY <1>4, <2>1, <3>1 DEF Cached, Watchful
  <2>3. ready'[s] = ready[s]
    BY <1>8, <2>2
  <2> QED  BY <2>1, <2>3 DEF Flagged
<1>13. \/ reply' = reply
       \/ reply'.sig \in Signals /\ reply'.val = Current(reply'.sig)
  BY <1>3, <1>5, <1>6 DEF ReturnValue
<1>14. ResultsOK' /\ \A g \in Frames : Pending(g) /\ FrameOK(g) => FrameOK(g)'
  BY <1>1, <1>3, <1>8, <1>9, <1>10, <1>11, <1>12, <1>13, ResultsMove
<1>15. UpToDate(s)'
  BY <1>4, <1>10
<1> QED  BY <1>1, <1>3, <1>5, <1>6, <1>14, <1>15, AccessGives

----------------------------------------------------------------------------
(* The control loop and the setters.                                       *)

\* Nothing runs between two calls of the control loop.
LEMMA Quiet ==
  ASSUME stack' = stack, stack = <<>>
  PROVE  /\ StackInv' /\ \A Rank : Descends(Rank, stack')
         /\ \A x : ~Running(x) /\ ~Running(x)'
<1>1. DOMAIN stack = {} /\ DOMAIN stack' = {}
  OBVIOUS
<1> QED  BY <1>1 DEF StackInv, Descends, Running

\* The signals and versions when no time passes and no source is set.
LEMMA KeepsCall ==
  ASSUME Watchful, NEW Rank, Ranks(Rank), Safe(Rank),
         NEW c \in Frames, CallFromLoop(c), FrameOK(c)', c.at \notin {"asked", "input"}
  PROVE  Kept(Rank)
<1>1. /\ stack = <<>> /\ setting = NoSignal /\ stack' = <<c>> /\ used'
      /\ reply' = NoReply /\ floor' = IF used THEN floor ELSE Completed
      /\ UNCHANGED <<stime, ready, lastAsk, deps, copy, now, version, setting>>
  BY DEF CallFromLoop, Watchful, signalVars, setVars
<1>2. SourcesInv /\ Explained /\ Today /\ ClockInv /\ TypeOK
  BY DEF Safe, FreshInv
<1>3. DOMAIN stack = {}
  BY <1>1
<1>4. SourcesInv' /\ Explained' /\ Today'
  <2>1. \A s \in Cached : Running(s) => Running(s)'
    BY <1>3 DEF Running
  <2>2. \A s \in Cached : lastAsk[s] => lastAsk'[s]
    BY <1>1
  <2> QED  BY <1>1, <1>2, <2>1, <2>2, ResultsStill
<1>5. floor' = version
  <2>1. \A s \in Signals : s # setting
    BY <1>1, GraphAssumption
  <2>2. version \in [Signals -> Nat]
    BY <1>2 DEF TypeOK
  <2>3. Completed = version
    BY <2>1, <2>2 DEF Completed
  <2> QED  BY <1>1, <1>2, <2>3 DEF ClockInv
<1>6. ClockInv'
  <2>1. (reply.sig)' = NoSignal
    BY <1>1 DEF NoReply
  <2> QED  BY <1>1, <1>2, <1>5, <2>1 DEF ClockInv
<1>7. StackInv'
  BY <1>1, StackBegins
<1>8. Descends(Rank, stack')
  <2>1. DOMAIN stack' = {1}
    BY <1>1
  <2> QED  BY <2>1 DEF Descends
<1> QED  BY <1>4, <1>6, <1>7, <1>8 DEF Kept, FreshInv

\* A new tick makes every result one of an earlier tick.
LEMMA KeepsTick ==
  ASSUME NEW Rank, Safe(Rank), Tick
  PROVE  Kept(Rank)
<1>1. /\ stack = <<>> /\ stack' = stack /\ now' = now + 1 /\ used' = FALSE
      /\ reply' = NoReply
      /\ UNCHANGED <<stime, ready, lastAsk, deps, copy, version, setting, floor>>
  BY DEF Tick, signalVars, callVars, setVars
<1>2. SourcesInv /\ Explained /\ Today /\ ClockInv
      /\ now \in Nat /\ stime \in [Signals -> Nat]
  BY DEF Safe, FreshInv, TypeOK
<1>3. StackInv' /\ Descends(Rank, stack') /\ \A x : ~Running(x)
  BY <1>1, Quiet
<1>4. \A s \in Signals : stime'[s] < now'
  BY <1>1, <1>2 DEF ClockInv
<1>5. SourcesInv'
  BY <1>1, <1>2 DEF SourcesInv
<1>6. Explained'
  BY <1>1, <1>2, <1>3 DEF Explained, Flagged
<1>7. Today'
  <2>1. \A s \in Cached : s \in Signals
    BY GraphAssumption DEF Cached
  <2>2. \A s \in Cached : stime'[s] # now'
    BY <1>1, <1>2, <1>4, <2>1
  <2> QED  BY <2>2 DEF Today
<1>8. ClockInv'
  <2>1. (reply.sig)' = NoSignal
    BY <1>1 DEF NoReply
  <2>2. \A s \in Signals : stime'[s] <= now'
    BY <1>1, <1>2 DEF ClockInv
  <2>3. (deps = [s \in Signals |-> Reverse(DepArgs[s])])'
    BY <1>1, <1>2 DEF ClockInv
  <2> QED  BY <1>1, <2>1, <2>2, <2>3 DEF ClockInv
<1> QED  BY <1>3, <1>5, <1>6, <1>7, <1>8 DEF Kept, FreshInv

\* Flags only make a signal ask again: setReady(), also at the end of setConstant().
LEMMA KeepsReady ==
  ASSUME NEW Rank, Safe(Rank), stack = <<>>, stack' = stack,
         NEW s \in Signals, ready' = [ready EXCEPT ![s] = TRUE],
         \/ setting' = setting /\ reply' = NoReply
         \/ setting = s /\ setting' = NoSignal /\ ~used /\ reply' = reply,
         UNCHANGED <<stime, lastAsk, deps, copy, version, now, used, floor>>
  PROVE  Kept(Rank)
<1>1. SourcesInv /\ Explained /\ Today /\ ClockInv /\ ready \in [Signals -> BOOLEAN]
  BY DEF Safe, FreshInv, TypeOK
<1>2. StackInv' /\ Descends(Rank, stack') /\ \A x : ~Running(x)
  BY Quiet
<1>3. \A x \in Signals : ready[x] => ready'[x]
  BY <1>1
<1>4. ready'[s]
  BY <1>1
<1>5. /\ \A x \in Cached : x \in Signals
      /\ \A x \in Cached : \A d \in Range(Inputs[x]) : d \in Signals
  BY <1>1, GraphAssumption, Lists DEF Cached
<1>6. SourcesInv'
  BY <1>1, <1>3 DEF SourcesInv
<1>7. \A d \in Signals : Flagged(d) => Flagged(d)'
  BY <1>3, <1>4 DEF Flagged
<1>8. Explained'
  BY <1>1, <1>2, <1>3, <1>5, <1>7 DEF Explained
<1>9. Today'
  <2>1. \A d \in Signals : UpToDate(d)' = UpToDate(d)
    BY SameSources
  <2> SUFFICES ASSUME NEW x \in Cached, ~ready'[x], stime'[x] = now'
               PROVE  used' /\ UpToDate(x)' /\ \A d \in Range(Inputs[x]) : UpToDate(d)'
    BY DEF Today
  <2>2. ~ready[x] /\ stime[x] = now
    BY <1>3, <1>5
  <2>3. used /\ UpToDate(x) /\ \A d \in Range(Inputs[x]) : UpToDate(d)
    BY <1>1, <1>2, <2>2 DEF Today
  <2>4. used'
    BY <2>3
  <2> QED  BY <1>5, <2>1, <2>3, <2>4
<1>10. ClockInv'
  <2>1. (reply.sig)' = NoSignal
    BY <1>1 DEF NoReply, ClockInv
  <2>2. used' => setting' = NoSignal /\ floor' = version'
    BY <1>1 DEF ClockInv
  <2> QED  BY <1>1, <2>1, <2>2 DEF ClockInv
<1> QED  BY <1>2, <1>6, <1>8, <1>9, <1>10 DEF Kept, FreshInv

\* Before the first call of a tick, no result is one of this tick.
LEMMA NoneToday ==
  ASSUME NEW Rank, Safe(Rank), stack = <<>>, stack' = stack, ~used,
         UNCHANGED <<stime, ready, now, used>>
  PROVE  Today'
<1>1. Today /\ \A x : ~Running(x)
  BY Quiet DEF Safe, FreshInv
<1>2. \A s \in Cached : ~(~ready[s] /\ stime[s] = now)
  BY <1>1 DEF Today
<1> QED  BY <1>2 DEF Today

\* Giving a source a new value, before the first call of a tick.
LEMMA KeepsSet ==
  ASSUME Watchful, NEW Rank, Safe(Rank), NEW c \in Sources,
         SetConstant(c) \/ WriteReferenced(c)
  PROVE  Kept(Rank)
<1>1. /\ stack = <<>> /\ stack' = stack /\ ~used /\ setting = NoSignal
      /\ version' = [version EXCEPT ![c] = @ + 1]
      /\ UNCHANGED <<stime, ready, lastAsk, deps, now, used, floor, reply>>
  BY DEF SetConstant, WriteReferenced, MaySet, Watchful, callVars, clockVars, signalVars
<1>2. SourcesInv /\ Explained /\ ClockInv /\ version \in [Signals -> Nat]
      /\ copy \in [Signals -> Values]
  BY DEF Safe, FreshInv, TypeOK
<1>3. StackInv' /\ Descends(Rank, stack') /\ \A x : ~Running(x)
  BY <1>1, Quiet
<1>4. Today'
  BY <1>1, NoneToday
<1>5. ClockInv'
  <2>1. reply.sig = NoSignal /\ ~used'
    <3>1. reply.sig = NoSignal
      BY <1>1, <1>2 DEF ClockInv
    <3> QED  BY <1>1, <3>1
  <2>2. (reply.sig)' = NoSignal
    BY <1>1, <2>1
  <2>3. (deps = [s \in Signals |-> Reverse(DepArgs[s])])'
        /\ \A s \in Signals : (stime[s] <= now)'
    BY <1>1, <1>2 DEF ClockInv
  <2>4. (stack = <<>>)'
    BY <1>1
  <2> QED  BY <2>1, <2>2, <2>3, <2>4 DEF ClockInv
<1>6. c \in Signals /\ c \notin Cached /\ \A x \in Signals : x # setting
  BY <1>1, GraphAssumption DEF Sources, Cached
<1>7. /\ \A x \in Cached : x \in Signals
      /\ \A x \in Cached : \A d \in Range(Inputs[x]) : d \in Signals
  BY <1>2, GraphAssumption, Lists DEF Cached
<1>8. CASE SetConstant(c)
  <2>1. Type[c] = "CONSTANT" /\ setting' = c
        /\ copy' = [copy EXCEPT ![c] = {<<c, version[c] + 1>>}]
    BY <1>8 DEF SetConstant, SetTcopy
  <2>2. /\ \A x \in Signals \ {c} : copy'[x] = copy[x] /\ version'[x] = version[x]
        /\ copy'[c] = {<<c, version'[c]>>}
    BY <1>1, <1>2, <1>6, <2>1
  <2>3. SourcesInv'
    BY <1>1, <1>2, <2>2 DEF SourcesInv
  <2>4. Flagged(c)' /\ \A d \in Signals : Flagged(d) => Flagged(d)'
    BY <1>1, <1>6, <2>1 DEF Flagged
  <2>5. Explained'
    <3> SUFFICES ASSUME NEW s \in Cached, ~ready'[s], ~lastAsk'[s],
                        \A d \in Range(Inputs[s]) : ~Flagged(d)' /\ ~(stime'[d] > stime'[s])
                 PROVE  (copy[s] = UNION {copy[d] : d \in Range(Inputs[s])})'
      BY DEF Explained
    <3>1. ~Running(s) /\ ~ready[s] /\ ~lastAsk[s]
      BY <1>1, <1>3
    <3>2. \A d \in Range(Inputs[s]) : /\ ~Flagged(d) /\ ~(stime[d] > stime[s])
                                      /\ copy'[d] = copy[d]
      BY <1>1, <1>7, <2>2, <2>4
    <3>3. copy[s] = UNION {copy[d] : d \in Range(Inputs[s])}
      BY <1>2, <3>1, <3>2 DEF Explained
    <3>4. copy'[s] = copy[s]
      BY <1>6, <1>7, <2>2
    <3> QED  BY <3>2, <3>3, <3>4
  <2> QED  BY <1>3, <1>4, <1>5, <2>3, <2>5 DEF Kept, FreshInv
<1>9. CASE WriteReferenced(c)
  <2>1. Type[c] = "REFERENCE" /\ setting' = setting /\ copy' = copy
    BY <1>9 DEF WriteReferenced, signalVars
  <2>2. \A x \in Signals \ {c} : version'[x] = version[x]
    BY <1>1, <1>2
  <2>3. SourcesInv'
    BY <1>1, <1>2, <2>1, <2>2 DEF SourcesInv
  <2>4. Explained'
    BY <1>1, <1>2, <1>3, <2>1 DEF Explained, Flagged
  <2> QED  BY <1>3, <1>4, <1>5, <2>3, <2>4 DEF Kept, FreshInv
<1> QED  BY <1>8, <1>9

----------------------------------------------------------------------------
(* The theorem.                                                            *)

\* All signals start with their ready flag: nothing is cached yet.
LEMMA FreshInit ==
  ASSUME NEW Rank, Init
  PROVE  FreshInv /\ Descends(Rank, stack)
<1>1. /\ stack = <<>> /\ used = FALSE /\ now \in {0, 1} /\ reply = NoReply
      /\ \A s \in Signals : ready[s] /\ stime[s] = 0 /\ version[s] = 0
      /\ \A s \in Signals : Type[s] = "CONSTANT" => copy[s] = {<<s, 0>>}
      /\ deps = [s \in Signals |-> Reverse(DepArgs[s])]
  BY DEF Init
<1>2. Cached \subseteq Signals
  BY GraphAssumption DEF Cached
<1>3. SourcesInv
  BY <1>1 DEF SourcesInv
<1>4. Explained /\ Today
  BY <1>1, <1>2 DEF Explained, Today
<1>5. ClockInv
  <2>1. reply.sig = NoSignal
    BY <1>1 DEF NoReply
  <2>2. \A s \in Signals : stime[s] <= now
    BY <1>1
  <2> QED  BY <1>1, <2>1, <2>2 DEF ClockInv
<1>6. DOMAIN stack = {}
  BY <1>1
<1>7. StackInv /\ Descends(Rank, stack)
  BY <1>1, <1>6 DEF StackInv, Descends
<1> QED  BY <1>3, <1>4, <1>5, <1>7 DEF FreshInv

\* A step that changes nothing keeps it.
LEMMA FreshStutter ==
  ASSUME TypeOK, FreshInv, UNCHANGED vars
  PROVE  FreshInv'
<1>1. UNCHANGED <<stime, ready, lastAsk, deps, copy, stack, answer, value, now, used,
                  floor, version, setting, reply>>
  BY DEF vars, signalVars, callVars, clockVars, setVars
<1>2. SourcesInv' /\ Explained' /\ Today'
  <2>1. \A s \in Cached : Running(s) => Running(s)'
    BY <1>1 DEF Running
  <2>2. \A s \in Cached : lastAsk[s] => lastAsk'[s]
    BY <1>1
  <2>3. used => used'
    BY <1>1
  <2> QED  BY <1>1, <2>1, <2>2, <2>3, ResultsStill DEF FreshInv
<1>3. ClockInv'
  BY <1>1 DEF FreshInv, ClockInv, Current
<1>4. \A i \in DOMAIN stack : stack[i] \in Frames
  BY ElementOfSeq, LenProperties DEF TypeOK
<1>5. \A g \in Frames : FrameOK(g) => FrameOK(g)'
  BY <1>1, KnowsStill
<1>6. \A g \in Frames : ToldOK(g) => ToldOK(g)'
  BY <1>1 DEF ToldOK, UpToDate, Flagged, Current
<1>7. StackInv'
  <2>1. DOMAIN stack' = DOMAIN stack /\ \A i : stack'[i] = stack[i]
    BY <1>1
  <2>2. \A i \in DOMAIN stack : FrameOK(stack[i])'
    BY <1>4, <1>5, <2>1 DEF FreshInv, StackInv
  <2>3. \A i \in DOMAIN stack : i # 1 => Calls(stack[i], stack[i - 1])'
    BY <1>1 DEF FreshInv, StackInv, Calls
  <2>4. stack # <<>> => ToldOK(stack[1])'
    <3>1. stack # <<>> => 1 \in DOMAIN stack
      BY EmptySeq, LenProperties DEF TypeOK
    <3> QED  BY <1>4, <1>6, <2>1, <3>1 DEF FreshInv, StackInv
  <2> QED  BY <1>1, <2>2, <2>3, <2>4 DEF StackInv
<1> QED  BY <1>2, <1>3, <1>7 DEF FreshInv

\* Every step keeps the invariant.
LEMMA FreshStep ==
  ASSUME Watchful, NEW Rank, Ranks(Rank), Safe(Rank), [Next]_vars
  PROVE  Kept(Rank)
<1>1. CASE Evaluate
  <2>1. ~BodyThrows
    BY DEF BodyThrows, Watchful
  <2> QED  BY <1>1, <2>1, KeepsEnter, KeepsDependency, KeepsAsked, KeepsLoopEnds,
              KeepsAsk, KeepsUpdate, KeepsCached, KeepsConstant, KeepsReadConstant,
              KeepsReference, KeepsFunction, KeepsReads, KeepsGets, KeepsEnds,
              KeepsReturns DEF Evaluate
<1>2. ASSUME NEW s \in Roots, Access(s) \/ AskNeedUpdate(s) PROVE Kept(Rank)
  <2>1. s \in Signals
    BY OptionAssumption
  <2>2. PICK c \in Frames : /\ CallFromLoop(c) /\ FrameOK(c)'
                            /\ c.at \notin {"asked", "input"}
    BY <1>2, <2>1, CallFields DEF Access, AskNeedUpdate
  <2> QED  BY <2>2, KeepsCall
<1>3. ASSUME NEW s \in Forced, SetReady(s) PROVE Kept(Rank)
  <2>1. s \in Signals
    BY OptionAssumption
  <2>2. /\ stack = <<>> /\ stack' = stack /\ ready' = [ready EXCEPT ![s] = TRUE]
        /\ setting' = setting /\ reply' = NoReply
        /\ UNCHANGED <<stime, lastAsk, deps, copy, version, now, used, floor>>
    BY <1>3 DEF SetReady, callVars, clockVars, setVars
  <2> QED  BY <2>1, <2>2, KeepsReady
<1>4. CASE SetConstantReady
  <2>1. setting # NoSignal /\ setting \in Signals \cup {NoSignal} /\ ClockInv
    BY <1>4 DEF SetConstantReady, Safe, FreshInv, TypeOK
  <2>2. ~used /\ stack = <<>>
    BY <2>1 DEF ClockInv
  <2>3. PICK s \in Signals : s = setting
    BY <2>1
  <2>4. /\ stack' = stack /\ ready' = [ready EXCEPT ![s] = TRUE]
        /\ setting' = NoSignal /\ reply' = reply
        /\ UNCHANGED <<stime, lastAsk, deps, copy, version, now, used, floor>>
    BY <1>4, <2>3 DEF SetConstantReady, callVars, clockVars
  <2> QED  BY <2>2, <2>3, <2>4, KeepsReady
<1>5. CASE Tick
  BY <1>5, KeepsTick
<1>6. CASE \E c \in Sources : SetConstant(c) \/ WriteReferenced(c)
  BY <1>6, KeepsSet
<1>7. CASE UNCHANGED vars
  <2>1. FreshInv'
    BY <1>7, FreshStutter DEF Safe
  <2>2. Descends(Rank, stack')
    BY <1>7 DEF vars, callVars, Safe
  <2> QED  BY <2>1, <2>2 DEF Kept
<1> QED  BY <1>1, <1>2, <1>3, <1>4, <1>5, <1>6, <1>7 DEF Next

\* A result that is what the sources make was computed from their last versions.
LEMMA FreshReply ==
  ASSUME TypeOK, FreshInv
  PROVE  Fresh
<1> SUFFICES ASSUME reply.sig # NoSignal, NEW c \in Below(reply.sig)
             PROVE  /\ \E v \in 0 .. version[c] : <<c, v>> \in reply.val
                    /\ \A v \in 0 .. version[c] : <<c, v>> \in reply.val => v >= floor[c]
  BY DEF Fresh
<1>1. reply.val = {<<x, version[x]>> : x \in Below(reply.sig)} /\ floor = version
  BY DEF FreshInv, ClockInv, Current
<1>2. c \in Signals
  BY DEF Below, Sources
<1>3. version[c] \in Nat
  BY <1>2 DEF TypeOK
<1>4. <<c, version[c]>> \in reply.val /\ version[c] \in 0 .. version[c]
  BY <1>1, <1>3
<1>5. \A v : <<c, v>> \in reply.val => v = version[c]
  BY <1>1
<1> QED  BY <1>1, <1>3, <1>4, <1>5

\* On an acyclic graph whose signals depend on what their Tfunctions read, and whose
\* sources are set between ticks, access() replies with what the sources make, and
\* misses no version that was set when the tick began.
THEOREM NothingMissed ==
  ASSUME Watchful, NEW Rank, Ranks(Rank)
  PROVE  Spec => []Fresh
<1>1. Init => FreshInv /\ Descends(Rank, stack) /\ Ordered(Rank, stack)
  <2>1. Init => Ordered(Rank, stack)
    BY DEF Init, Ordered
  <2> QED  BY <2>1, FreshInit
<1>2. /\ TypeOK /\ FreshInv /\ Descends(Rank, stack) /\ Ordered(Rank, stack)
      /\ [Next]_vars
      => FreshInv' /\ Descends(Rank, stack)' /\ Ordered(Rank, stack)'
  BY FreshStep, OrderStep DEF Safe, Kept, Ranks
<1>3. TypeOK /\ FreshInv => Fresh
  BY FreshReply
<1> QED  BY <1>1, <1>2, <1>3, TypeCorrect, PTL DEF Spec

----------------------------------------------------------------------------
(* Once per period.                                                        *)

\* The time-dependent functions, and when they may run again.
Paced == {s \in TimeDep : Type[s] = "FUNCTION" /\ Kind[s] = "TIME_DEPENDENT"}
Due(s) == now >= stime[s] + Period[s]

\* The calls that wait: needUpdate() for needUpdate(), access() for its own needUpdate()
\* or for an access() of an input, which has no needUpdate() below it.
Nested(st) ==
  \A i, j \in DOMAIN st : i < j =>
    /\ st[j].at \in {"asked", "input"}
    /\ st[i].op = "access" => st[j].op = "access" /\ st[j].at = "input"
    /\ j = i + 1 /\ st[j].op = "access" /\ st[j].at = "asked" => st[i].sig = st[j].sig

\* A call that got past the test of the period found it over; from there on the sticky
\* flag, which the call has cleared, may only be set by another one that did.
PaceFrame(f) ==
  f.sig \in Paced =>
    /\ f.op = "need" /\ f.at \in {"loop", "asked"} => Due(f.sig)
    /\ f.op = "access" /\ f.at \notin {"ask", "asked"} /\ lastAsk[f.sig] => Due(f.sig)
    /\ f.op = "access" /\ f.at = "run" =>
         ~lastAsk[f.sig] /\ (ready[f.sig] \/ Due(f.sig))

PaceTold(f) ==
  f.sig \in Paced /\ f.op = "access" /\ f.at = "asked" /\ answer =>
    ready[f.sig] \/ Due(f.sig)

\* The sticky flag tells of a period that is over, or was never cleared.
FlagInv == \A s \in Paced : lastAsk[s] => ready[s] \/ Due(s)

PaceStack ==
  /\ Nested(stack)
  /\ \A i \in DOMAIN stack : PaceFrame(stack[i])
  /\ stack # <<>> => PaceTold(stack[1])

PaceInv == FlagInv /\ PaceStack

----------------------------------------------------------------------------
(* The stack.                                                              *)

\* A step inside the running function, a call, and a return, as in StackGoes,
\* StackCalls and StackReturns: what waiting calls know must stay true.
PaceStays == \A g \in Frames : PaceFrame(g) /\ g.at \in {"asked", "input"} => PaceFrame(g)'

LEMMA PaceGoes ==
  ASSUME TypeOK, PaceStack, stack # <<>>, PaceStays,
         NEW f \in Frames, f.op = top.op, f.sig = top.sig, Goto(f),
         PaceFrame(f)', PaceTold(f)'
  PROVE  PaceStack'
<1>1. /\ DOMAIN stack' = DOMAIN stack /\ stack'[1] = f /\ stack' # <<>>
      /\ \A i \in DOMAIN stack : i # 1 => stack'[i] = stack[i]
  BY GotoFrames
<1>2. /\ top = stack[1] /\ \A i \in DOMAIN stack : stack[i] \in Frames
      /\ DOMAIN stack = 1 .. Len(stack) /\ Len(stack) \in Nat /\ 1 \in DOMAIN stack
  BY StackShape
<1>3. Nested(stack')
  <2> SUFFICES ASSUME NEW i \in DOMAIN stack, NEW j \in DOMAIN stack, i < j
               PROVE  /\ stack'[j].at \in {"asked", "input"}
                      /\ stack'[i].op = "access" =>
                           stack'[j].op = "access" /\ stack'[j].at = "input"
                      /\ j = i + 1 /\ stack'[j].op = "access" /\ stack'[j].at = "asked" =>
                           stack'[i].sig = stack'[j].sig
    BY <1>1 DEF Nested
  <2>1. stack'[j] = stack[j]
    BY <1>1, <1>2
  <2>2. stack'[i].op = stack[i].op /\ stack'[i].sig = stack[i].sig
    BY <1>1, <1>2
  <2> QED  BY <2>1, <2>2 DEF PaceStack, Nested
<1>4. ASSUME NEW i \in DOMAIN stack PROVE PaceFrame(stack[i])'
  <2>1. CASE i = 1
    BY <1>1, <2>1
  <2>2. CASE i # 1
    <3>1. PaceFrame(stack[i]) /\ stack[i] \in Frames /\ stack[i].at \in {"asked", "input"}
      BY <1>2, <2>2 DEF PaceStack, Nested
    <3>2. stack'[i] = stack[i]
      BY <1>1, <2>2
    <3> QED  BY <3>1, <3>2 DEF PaceStays
  <2> QED  BY <2>1, <2>2
<1> QED  BY <1>1, <1>3, <1>4 DEF PaceStack

LEMMA PaceCalls ==
  ASSUME TypeOK, PaceStack, stack # <<>>, PaceStays,
         NEW f \in Frames, NEW c \in Frames, f.op = top.op, f.sig = top.sig, GotoCall(f, c),
         f.at \in {"asked", "input"}, c.at \notin {"asked", "input"},
         c.op = "access" => f.op = "access" /\ f.at = "input",
         f.op = "access" /\ f.at = "asked" => c.sig = f.sig,
         PaceFrame(f)', PaceFrame(c)'
  PROVE  PaceStack'
<1>1. /\ stack' # <<>> /\ DOMAIN stack' = 1 .. Len(stack) + 1
      /\ stack'[1] = c /\ stack'[2] = f
      /\ \A i \in DOMAIN stack : i # 1 => stack'[i + 1] = stack[i]
  BY CallFrames
<1>2. /\ top = stack[1] /\ \A i \in DOMAIN stack : stack[i] \in Frames
      /\ DOMAIN stack = 1 .. Len(stack) /\ Len(stack) \in Nat /\ 1 \in DOMAIN stack
  BY StackShape
<1>3. ASSUME NEW j \in DOMAIN stack', j # 1
      PROVE  /\ j - 1 \in DOMAIN stack
             /\ stack'[j].op = stack[j - 1].op /\ stack'[j].sig = stack[j - 1].sig
             /\ j = 2 => stack'[j] = f
             /\ j # 2 => stack'[j] = stack[j - 1] /\ 1 < j - 1
  <2>1. j - 1 \in DOMAIN stack /\ (j - 1) + 1 = j /\ (j # 2 => 1 < j - 1 /\ j - 1 # 1)
    BY <1>1, <1>2, <1>3
  <2> QED  BY <1>1, <1>2, <2>1
<1>4. ASSUME NEW j \in DOMAIN stack', j # 1 PROVE stack'[j].at \in {"asked", "input"}
  <2>1. CASE j = 2
    BY <1>1, <2>1
  <2>2. CASE j # 2
    BY <1>2, <1>3, <1>4, <2>2 DEF PaceStack, Nested
  <2> QED  BY <2>1, <2>2
<1>5. Nested(stack')
  <2> SUFFICES ASSUME NEW i \in DOMAIN stack', NEW j \in DOMAIN stack', i < j
               PROVE  /\ stack'[i].op = "access" =>
                           stack'[j].op = "access" /\ stack'[j].at = "input"
                      /\ j = i + 1 /\ stack'[j].op = "access" /\ stack'[j].at = "asked" =>
                           stack'[i].sig = stack'[j].sig
    <3>1. \A j \in DOMAIN stack', i \in DOMAIN stack' : i < j => j # 1
      BY <1>1, <1>2
    <3> QED  BY <1>4, <3>1 DEF Nested
  <2>1. j # 1
    BY <1>1, <1>2
  <2>2. CASE i = 1 /\ j = 2
    BY <1>1, <2>2
  <2>3. CASE i = 1 /\ j # 2
    <3>1. /\ stack'[j] = stack[j - 1] /\ j - 1 \in DOMAIN stack /\ 1 < j - 1
          /\ j # i + 1
      BY <1>3, <2>1, <2>3
    <3>2. stack[1].op = "access" =>
            stack[j - 1].op = "access" /\ stack[j - 1].at = "input"
      BY <1>2, <3>1 DEF PaceStack, Nested
    <3> QED  BY <1>1, <1>2, <2>3, <3>1, <3>2
  <2>4. CASE i # 1
    <3> DEFINE m == i - 1
               n == j - 1
    <3>1. /\ m \in DOMAIN stack /\ n \in DOMAIN stack /\ m < n /\ j # 2
          /\ (j = i + 1 => n = m + 1)
      BY <1>1, <1>2, <2>4
    <3>2. /\ stack'[i].op = stack[m].op /\ stack'[i].sig = stack[m].sig
          /\ stack'[j] = stack[n]
      BY <1>3, <2>1, <2>4, <3>1
    <3> HIDE DEF m, n
    <3> QED  BY <3>1, <3>2 DEF PaceStack, Nested
  <2> QED  BY <2>2, <2>3, <2>4
<1>6. ASSUME NEW j \in DOMAIN stack' PROVE PaceFrame(stack[j])'
  <2>1. CASE j = 1
    BY <1>1, <2>1
  <2>2. CASE j = 2
    BY <1>1, <2>2
  <2>3. CASE j # 1 /\ j # 2
    <3> DEFINE m == j - 1
    <3>1. m \in DOMAIN stack /\ stack'[j] = stack[m] /\ 1 < m
      BY <1>3, <2>3
    <3> HIDE DEF m
    <3>2. PaceFrame(stack[m]) /\ stack[m] \in Frames /\ stack[m].at \in {"asked", "input"}
      BY <1>2, <3>1 DEF PaceStack, Nested
    <3> QED  BY <3>1, <3>2 DEF PaceStays
  <2> QED  BY <2>1, <2>2, <2>3
<1>7. PaceTold(c)'
  BY DEF PaceTold
<1> QED  BY <1>1, <1>5, <1>6, <1>7 DEF PaceStack

LEMMA PaceReturns ==
  ASSUME TypeOK, PaceStack, stack # <<>>, PaceStays, stack' = Tail(stack),
         \A g \in Frames :
           /\ ~ outermost /\ PaceFrame(g)
           /\ top.op = "access" => g.at = "input"
           /\ g.op = "access" /\ g.at = "asked" => g.sig = top.sig
           => PaceTold(g)'
  PROVE  PaceStack'
<1>1. /\ DOMAIN stack' = 1 .. Len(stack) - 1
      /\ \A i \in DOMAIN stack' : i + 1 \in DOMAIN stack /\ stack'[i] = stack[i + 1]
      /\ outermost <=> stack' = <<>>
      /\ stack' # <<>> => 1 \in DOMAIN stack' /\ 2 \in DOMAIN stack
  BY ReturnFrames
<1>2. /\ top = stack[1] /\ \A i \in DOMAIN stack : stack[i] \in Frames
      /\ DOMAIN stack = 1 .. Len(stack) /\ Len(stack) \in Nat /\ 1 \in DOMAIN stack
  BY StackShape
<1>3. Nested(stack')
  <2>1. ASSUME NEW i \in DOMAIN stack', NEW j \in DOMAIN stack', i < j
        PROVE  /\ i + 1 \in DOMAIN stack /\ j + 1 \in DOMAIN stack /\ i + 1 < j + 1
               /\ j = i + 1 => j + 1 = (i + 1) + 1
    BY <1>1, <1>2, <2>1
  <2> QED  BY <1>1, <2>1 DEF PaceStack, Nested
<1>4. ASSUME NEW i \in DOMAIN stack' PROVE PaceFrame(stack[i])'
  <2> DEFINE m == i + 1
  <2>1. m \in DOMAIN stack /\ stack'[i] = stack[m] /\ 1 < m
    BY <1>1, <1>2
  <2> HIDE DEF m
  <2>2. PaceFrame(stack[m]) /\ stack[m] \in Frames /\ stack[m].at \in {"asked", "input"}
    BY <1>2, <2>1 DEF PaceStack, Nested
  <2> QED  BY <2>1, <2>2 DEF PaceStays
<1>5. ASSUME stack' # <<>> PROVE PaceTold(stack[1])'
  <2>1. 2 \in DOMAIN stack /\ 1 < 2 /\ 2 = 1 + 1 /\ stack'[1] = stack[2] /\ ~ outermost
    BY <1>1, <1>5
  <2>2. /\ PaceFrame(stack[2]) /\ stack[2] \in Frames
        /\ stack[1].op = "access" => stack[2].at = "input"
        /\ stack[2].op = "access" /\ stack[2].at = "asked" => stack[1].sig = stack[2].sig
    BY <1>2, <2>1 DEF PaceStack, Nested
  <2> QED  BY <1>2, <2>1, <2>2
<1> QED  BY <1>3, <1>4, <1>5 DEF PaceStack

LEMMA PaceBegins ==
  ASSUME NEW c \in Frames, stack' = <<c>>, PaceFrame(c)', c.at \notin {"asked", "input"}
  PROVE  PaceStack'
<1>1. DOMAIN stack' = {1} /\ stack'[1] = c
  OBVIOUS
<1>2. PaceTold(c)'
  BY DEF PaceTold
<1> QED  BY <1>1, <1>2 DEF PaceStack, Nested

----------------------------------------------------------------------------
(* The steps.                                                              *)

\* The running function, and what is known of it.
LEMMA PaceTop ==
  ASSUME TypeOK, PaceInv, stack # <<>>
  PROVE  /\ top \in Frames /\ top.sig \in Signals /\ top = stack[1]
         /\ PaceFrame(top) /\ PaceTold(top)
         /\ top = [op |-> top.op, sig |-> top.sig, at |-> top.at, it |-> top.it,
                   acc |-> top.acc]
<1>1. top = stack[1] /\ top \in Frames /\ 1 \in DOMAIN stack
  BY StackShape
<1> QED  BY <1>1, FrameUpdates DEF PaceInv, PaceStack, Frames

\* A step that moves no flag and no time.
LEMMA PaceQuiet ==
  ASSUME FlagInv, UNCHANGED <<stime, ready, lastAsk, now>>
  PROVE  FlagInv' /\ PaceStays /\ \A g : PaceFrame(g) => PaceFrame(g)'
BY DEF FlagInv, PaceStays, PaceFrame, Due

\* needUpdate() decides.
LEMMA PaceResult ==
  ASSUME TypeOK, PaceInv, stack # <<>>, top.op = "need", NEW yes \in BOOLEAN,
         yes /\ top.sig \in Paced => Due(top.sig),
         NeedResult(yes), UNCHANGED <<stime, ready, now>>
  PROVE  PaceInv'
<1>1. top.sig \in Signals /\ lastAsk \in [Signals -> BOOLEAN]
  BY PaceTop DEF TypeOK
<1>2. lastAsk' = [lastAsk EXCEPT ![top.sig] = yes]
  BY DEF NeedResult
<1>3. \A s \in Paced : s \in Signals /\ Due(s)' = Due(s)
  BY GraphAssumption DEF Paced, Due
<1>4. \A s \in Paced : lastAsk'[s] => lastAsk[s] \/ Due(s)
  BY <1>1, <1>2, <1>3
<1>5. FlagInv'
  BY <1>3, <1>4 DEF FlagInv, PaceInv
<1>6. PaceStays
  BY <1>3, <1>4 DEF PaceStays, PaceFrame
<1>7. stack' = Tail(stack) /\ answer' = (~outermost /\ yes)
  BY DEF NeedResult, ReturnAnswer
<1>8. ASSUME NEW g \in Frames, g.op = "access" /\ g.at = "asked" => g.sig = top.sig
      PROVE  PaceTold(g)'
  BY <1>3, <1>7, <1>8 DEF PaceTold
<1>9. PaceStack'
  BY <1>6, <1>7, <1>8, PaceReturns DEF PaceInv
<1> QED  BY <1>5, <1>9 DEF PaceInv

LEMMA PaceVerdict ==
  ASSUME TypeOK, PaceInv, stack # <<>>, top.op = "need", top.at \in {"loop", "asked"},
         NEW yes \in BOOLEAN, NeedVerdict(yes), UNCHANGED <<stime, ready, now>>
  PROVE  PaceInv'
<1>1. top \in Frames /\ (top.sig \in Paced => Due(top.sig))
  BY PaceTop DEF PaceFrame
<1>2. CASE NeedResult(yes)
  BY <1>1, <1>2, PaceResult
<1>3. CASE ~ NeedResult(yes)
  <2>0. "loop" \in Places
    BY DEF Places
  <2>f. PICK f \in Frames : f = [top EXCEPT !.at = "loop", !.it = @ + 1]
    BY <2>0, PaceTop, FrameUpdates
  <2>2. f.op = top.op /\ f.sig = top.sig /\ f.at = "loop"
    BY <2>0, <2>f, PaceTop, NextFields
  <2>1. Goto(f) /\ lastAsk' = lastAsk
    BY <1>3, <2>f DEF NeedVerdict
  <2>3. FlagInv' /\ PaceStays
    BY <2>1, PaceQuiet DEF PaceInv
  <2>4. PaceFrame(f)' /\ PaceTold(f)'
    BY <1>1, <2>2 DEF PaceFrame, PaceTold, Due
  <2>5. PaceStack'
    BY <2>1, <2>2, <2>3, <2>4, PaceGoes DEF PaceInv
  <2> QED  BY <2>3, <2>5 DEF PaceInv
<1> QED  BY <1>2, <1>3

LEMMA PaceNeed ==
  ASSUME TypeOK, PaceInv, NeedEnter \/ NeedDependency \/ NeedAsked \/ NeedLoopEnds
  PROVE  PaceInv'
<1>1. stack # <<>> /\ top.op = "need"
  BY DEF NeedEnter, NeedDependency, NeedAsked, NeedLoopEnds, At
<1>2. top \in Frames /\ top.sig \in Signals /\ PaceFrame(top)
  BY <1>1, PaceTop
<1>3. CASE NeedEnter
  <2> DEFINE s == top.sig
             yes == \/ ready[s]
                    \/ s \in TimeDep /\ (lastAsk[s] \/ Kind[s] = "ALWAYS_READY")
             no  == \/ s \notin TimeDep
                    \/ Kind[s] = "TIME_DEPENDENT" /\ now < stime[s] + Period[s]
  <2>1. /\ UNCHANGED <<stime, ready, lastAsk, now>>
        /\ \/ yes /\ ReturnAnswer(TRUE)
           \/ ReturnAnswer(FALSE)
           \/ ~no /\ Goto([top EXCEPT !.at = "loop"])
    BY <1>3 DEF NeedEnter, signalVars, clockVars
  <2>2. FlagInv' /\ PaceStays
    BY <2>1, PaceQuiet DEF PaceInv
  <2>3. s \in Paced /\ yes => ready[s] \/ Due(s)
    BY DEF Paced, PaceInv, FlagInv
  <2>4. s \in Paced /\ ~no => Due(s)
    <3>1. ASSUME s \in Paced, ~no PROVE ~(now < stime[s] + Period[s])
      BY <3>1 DEF Paced
    <3>2. now \in Nat /\ stime[s] \in Nat /\ Period[s] \in Nat
      BY <1>2, GraphAssumption DEF TypeOK
    <3> QED  BY <3>1, <3>2 DEF Due
  <2> HIDE DEF yes, no
  <2>5. ASSUME NEW b \in BOOLEAN, ReturnAnswer(b), b => yes PROVE PaceStack'
    <3>1. stack' = Tail(stack) /\ answer' = (~outermost /\ b)
      BY <2>5 DEF ReturnAnswer
    <3>2. ASSUME NEW g \in Frames, g.op = "access" /\ g.at = "asked" => g.sig = top.sig
          PROVE  PaceTold(g)'
      BY <2>1, <2>3, <2>5, <3>1, <3>2 DEF PaceTold, Due
    <3> QED  BY <1>1, <2>2, <3>1, <3>2, PaceReturns DEF PaceInv
  <2>6. ASSUME ~no, Goto([top EXCEPT !.at = "loop"]) PROVE PaceStack'
    <3>0. "loop" \in Places
      BY DEF Places
    <3>f. PICK f \in Frames : f = [top EXCEPT !.at = "loop"]
      BY <1>2, <3>0, FrameUpdates
    <3>1. f.op = top.op /\ f.sig = top.sig /\ f.at = "loop"
      BY <1>2, <3>0, <3>f, FrameFields
    <3>2. Goto(f)
      BY <2>6, <3>f
    <3>3. PaceFrame(f)' /\ PaceTold(f)'
      BY <1>1, <2>1, <2>4, <2>6, <3>1 DEF PaceFrame, PaceTold, Due
    <3> QED  BY <1>1, <2>2, <3>1, <3>2, <3>3, PaceGoes DEF PaceInv
  <2>7. PaceStack'
    BY <2>1, <2>5, <2>6
  <2> QED  BY <2>2, <2>7 DEF PaceInv
<1>4. CASE NeedDependency
  <2> DEFINE d == deps[top.sig][top.it]
  <2>1. UNCHANGED <<stime, ready, now>> /\ top.at = "loop"
    BY <1>4 DEF NeedDependency, clockVars, At
  <2>2. CASE NeedVerdict(TRUE)
    BY <1>1, <2>1, <2>2, PaceVerdict
  <2>3. CASE /\ GotoCall([top EXCEPT !.at = "asked"], CallNeed(d))
             /\ UNCHANGED <<lastAsk, answer>>
    <3>0. "asked" \in Places
      BY DEF Places
    <3>f. PICK f \in Frames : f = [top EXCEPT !.at = "asked"]
      BY <1>2, <3>0, FrameUpdates
    <3>1. f.op = top.op /\ f.sig = top.sig /\ f.at = "asked"
      BY <1>2, <3>0, <3>f, FrameFields
    <3>2. d \in Signals
      <4>1. deps[top.sig] \in Seq(Signals) /\ top.it \in Nat \ {0}
        BY <1>2, FrameUpdates DEF TypeOK
      <4> QED  BY <1>4, <4>1, ElementOfSeq, LenProperties DEF NeedDependency
    <3>3. PICK c \in Frames : c = CallNeed(d) /\ c.op = "need" /\ c.at = "enter"
      BY <3>2, FrameTypes DEF CallNeed, Frame
    <3>4. GotoCall(f, c)
      BY <2>3, <3>f, <3>3
    <3>5. FlagInv' /\ PaceStays
      BY <2>1, <2>3, PaceQuiet DEF PaceInv
    <3>6. PaceFrame(f)' /\ PaceFrame(c)'
      BY <1>1, <1>2, <2>1, <3>1, <3>3 DEF PaceFrame, Due
    <3>7. PaceStack'
      BY <1>1, <3>1, <3>3, <3>4, <3>5, <3>6, PaceCalls DEF PaceInv
    <3> QED  BY <3>5, <3>7 DEF PaceInv
  <2> QED  BY <1>4, <2>2, <2>3 DEF NeedDependency
<1>5. CASE NeedAsked
  <2>1. /\ UNCHANGED <<stime, ready, now>> /\ top.at = "asked"
        /\ NeedVerdict(answer) /\ answer \in BOOLEAN
    BY <1>5 DEF NeedAsked, clockVars, At, TypeOK
  <2> QED  BY <1>1, <2>1, PaceVerdict
<1>6. CASE NeedLoopEnds
  <2>1. /\ UNCHANGED <<stime, ready, now>> /\ top.at = "loop"
        /\ NeedResult(top.sig \in AllChildren) /\ (top.sig \in AllChildren) \in BOOLEAN
    BY <1>6 DEF NeedLoopEnds, clockVars, At
  <2>2. top.sig \in Paced => Due(top.sig)
    BY <1>1, <1>2, <2>1 DEF PaceFrame
  <2> QED  BY <1>1, <2>1, <2>2, PaceResult
<1> QED  BY <1>3, <1>4, <1>5, <1>6

\* A step of the running function that moves no flag and no time, and gets nowhere that
\* PaceFrame speaks of.
LEMMA PaceMoves ==
  ASSUME TypeOK, PaceInv, stack # <<>>, top.op = "access",
         UNCHANGED <<stime, ready, lastAsk, now>>,
         NEW f \in Frames, f.op = top.op, f.sig = top.sig, Goto(f),
         top.at \notin {"ask", "asked"}, f.at \notin {"ask", "asked", "run"}
  PROVE  PaceInv'
<1>1. FlagInv' /\ PaceStays
  BY PaceQuiet DEF PaceInv
<1>2. f.sig \in Paced /\ lastAsk[f.sig] => Due(f.sig)
  BY PaceTop DEF PaceFrame
<1>3. PaceFrame(f)' /\ PaceTold(f)'
  BY <1>2 DEF PaceFrame, PaceTold, Due
<1>4. PaceStack'
  BY <1>1, <1>3, PaceGoes DEF PaceInv
<1> QED  BY <1>1, <1>4 DEF PaceInv

LEMMA PaceAsk ==
  ASSUME TypeOK, PaceInv, AccessAsk \/ AccessUpdate \/ AccessCached
  PROVE  PaceInv'
<1>1. stack # <<>> /\ top.op = "access"
  BY DEF AccessAsk, AccessUpdate, AccessCached, At
<1>2. top \in Frames /\ top.sig \in Signals /\ PaceFrame(top) /\ PaceTold(top)
  BY <1>1, PaceTop
<1>3. CASE AccessAsk
  <2>1. "asked" \in Places
    BY DEF Places
  <2>2. PICK f \in Frames : f = [top EXCEPT !.at = "asked"]
    BY <1>2, <2>1, FrameUpdates
  <2>3. f.op = top.op /\ f.sig = top.sig /\ f.at = "asked"
    BY <1>2, <2>1, <2>2, FrameFields
  <2>4. PICK c \in Frames : /\ c = CallNeed(top.sig) /\ c.op = "need" /\ c.at = "enter"
                            /\ c.sig = top.sig
    BY <1>2, FrameTypes DEF CallNeed, Frame
  <2>5. GotoCall(f, c) /\ UNCHANGED <<stime, ready, lastAsk, now>>
    BY <1>3, <2>2, <2>4 DEF AccessAsk, signalVars, clockVars
  <2>6. FlagInv' /\ PaceStays
    BY <2>5, PaceQuiet DEF PaceInv
  <2>7. PaceFrame(f)' /\ PaceFrame(c)'
    BY <1>1, <2>3, <2>4 DEF PaceFrame
  <2>8. PaceStack'
    BY <1>1, <2>3, <2>4, <2>5, <2>6, <2>7, PaceCalls DEF PaceInv
  <2> QED  BY <2>6, <2>8 DEF PaceInv
<1>4. CASE AccessUpdate
  <2>1. "run" \in Places
    BY DEF Places
  <2>2. PICK f \in Frames : f = [top EXCEPT !.at = "run"]
    BY <1>2, <2>1, FrameUpdates
  <2>3. f.op = top.op /\ f.sig = top.sig /\ f.at = "run"
    BY <1>2, <2>1, <2>2, FrameFields
  <2>4. /\ top.at = "asked" /\ answer /\ Goto(f) /\ UNCHANGED <<stime, ready, now>>
        /\ lastAsk' = [lastAsk EXCEPT ![top.sig] = FALSE]
    BY <1>4, <2>2 DEF AccessUpdate, At, clockVars
  <2>5. \A s \in Paced : s \in Signals /\ (lastAsk'[s] => lastAsk[s]) /\ Due(s)' = Due(s)
    BY <1>2, <2>4, GraphAssumption DEF Paced, Due, TypeOK
  <2>6. ~lastAsk'[top.sig]
    BY <1>2, <2>4 DEF TypeOK
  <2>7. FlagInv' /\ PaceStays
    BY <2>4, <2>5 DEF FlagInv, PaceInv, PaceStays, PaceFrame
  <2>8. f.sig \in Paced => ready[f.sig] \/ Due(f.sig)
    BY <1>1, <1>2, <2>3, <2>4 DEF PaceTold
  <2>9. PaceFrame(f)' /\ PaceTold(f)'
    BY <1>1, <2>3, <2>4, <2>5, <2>6, <2>8 DEF PaceFrame, PaceTold
  <2>10. PaceStack'
    BY <1>1, <2>3, <2>4, <2>7, <2>9, PaceGoes DEF PaceInv
  <2> QED  BY <2>7, <2>10 DEF PaceInv
<1>5. CASE AccessCached
  <2>1. stack' = Tail(stack) /\ UNCHANGED <<stime, ready, lastAsk, now>>
    BY <1>5 DEF AccessCached, ReturnValue, signalVars, clockVars
  <2>2. FlagInv' /\ PaceStays
    BY <2>1, PaceQuiet DEF PaceInv
  <2>3. \A g \in Frames : g.at = "input" => PaceTold(g)'
    BY DEF PaceTold
  <2>4. PaceStack'
    BY <1>1, <2>1, <2>2, <2>3, PaceReturns DEF PaceInv
  <2> QED  BY <2>2, <2>4 DEF PaceInv
<1> QED  BY <1>3, <1>4, <1>5

\* No needUpdate() is in progress while an access() runs, and a waiting access() is not
\* at its test: the flag and the time of one signal may change.
LEMMA PaceTimes ==
  ASSUME TypeOK, PaceInv, stack # <<>>, top.op = "access", top.at \notin {"ask", "asked"},
         UNCHANGED <<lastAsk, now>>,
         \A s \in Signals \ {top.sig} : stime'[s] = stime[s] /\ ready'[s] = ready[s],
         top.sig \in Paced => \/ ~lastAsk[top.sig]
                              \/ stime'[top.sig] = stime[top.sig],
         NEW f \in Frames, f.op = top.op, f.sig = top.sig, Goto(f),
         f.at \notin {"ask", "asked", "run"}
  PROVE  PaceInv'
<1>1. top \in Frames /\ top.sig \in Signals /\ PaceFrame(top)
  BY PaceTop
<1>2. \A s \in Paced : s \in Signals
  BY GraphAssumption DEF Paced
<1> PICK t \in Signals : t = top.sig
  BY <1>1
<1>3. \A s \in Paced \ {t} : Due(s)' = Due(s)
  BY <1>2 DEF Due
<1>4. t \in Paced /\ lastAsk[t] => Due(t) /\ Due(t)'
  BY <1>1 DEF PaceFrame, Due
<1>5. FlagInv'
  BY <1>2, <1>3, <1>4 DEF FlagInv, PaceInv
<1>6. \A g \in Frames : PaceFrame(g) /\ g.op = "access" /\ g.at = "input" => PaceFrame(g)'
  BY <1>3, <1>4 DEF PaceFrame
<1>7. PaceFrame(f)' /\ PaceTold(f)'
  BY <1>4 DEF PaceFrame, PaceTold
<1>8. /\ DOMAIN stack' = DOMAIN stack /\ stack'[1] = f /\ stack' # <<>>
      /\ \A i \in DOMAIN stack : i # 1 => stack'[i] = stack[i]
  BY GotoFrames
<1>9. /\ top = stack[1] /\ \A i \in DOMAIN stack : stack[i] \in Frames
      /\ DOMAIN stack = 1 .. Len(stack) /\ Len(stack) \in Nat /\ 1 \in DOMAIN stack
  BY StackShape
<1>10. \A i \in DOMAIN stack : i # 1 => stack[i].op = "access" /\ stack[i].at = "input"
  BY <1>9 DEF PaceInv, PaceStack, Nested
<1>11. \A i \in DOMAIN stack : PaceFrame(stack[i])'
  <2> SUFFICES ASSUME NEW i \in DOMAIN stack PROVE PaceFrame(stack[i])'
    OBVIOUS
  <2>1. CASE i = 1
    BY <1>7, <1>8, <2>1
  <2>2. CASE i # 1
    BY <1>6, <1>8, <1>9, <1>10, <2>2 DEF PaceInv, PaceStack
  <2> QED  BY <2>1, <2>2
<1>12. Nested(stack')
  <2> SUFFICES ASSUME NEW i \in DOMAIN stack, NEW j \in DOMAIN stack, i < j
               PROVE  stack'[j].op = "access" /\ stack'[j].at = "input"
    BY <1>8 DEF Nested
  <2>1. j # 1
    BY <1>9
  <2> QED  BY <1>8, <1>10, <2>1
<1> QED  BY <1>5, <1>7, <1>8, <1>11, <1>12 DEF PaceInv, PaceStack

LEMMA PaceRuns ==
  ASSUME TypeOK, PaceInv, RunConstant \/ ReadConstant \/ RunReference \/ RunFunction
  PROVE  PaceInv'
<1>1. /\ stack # <<>> /\ top.op = "access" /\ top.at \in {"run", "copy"}
      /\ UNCHANGED <<lastAsk, now>>
  BY DEF RunConstant, ReadConstant, RunReference, RunFunction, At, signalVars, clockVars
<1>2. /\ top \in Frames /\ top.sig \in Signals /\ PaceFrame(top)
      /\ stime \in [Signals -> Nat] /\ ready \in [Signals -> BOOLEAN]
      /\ copy[top.sig] \in Values /\ {<<top.sig, version[top.sig]>>} \in Values
  BY <1>1, PaceTop, ValueTypes DEF TypeOK
<1>3. "copy" \in Places /\ "body" \in Places /\ "ran" \in Places
  BY DEF Places
<1>4. PICK f \in Frames : /\ f.op = top.op /\ f.sig = top.sig /\ Goto(f)
                          /\ f.at \in {"copy", "body", "ran"}
  <2>1. CASE RunConstant \/ RunFunction
    <3>1. \E x \in {"copy", "body"} : Goto([top EXCEPT !.at = x])
      BY <2>1 DEF RunConstant, RunFunction
    <3>2. PICK x \in {"copy", "body"} : Goto([top EXCEPT !.at = x])
      BY <3>1
    <3>3. x \in Places
      BY <1>3
    <3>4. PICK f \in Frames : f = [top EXCEPT !.at = x]
      BY <1>2, <3>3, FrameUpdates
    <3>5. f.op = top.op /\ f.sig = top.sig /\ f.at = x
      BY <1>2, <3>3, <3>4, FrameFields
    <3> QED  BY <3>2, <3>4, <3>5
  <2>2. CASE ReadConstant \/ RunReference
    <3>1. PICK v \in Values : Goto([top EXCEPT !.at = "ran", !.acc = v])
      BY <1>2, <2>2 DEF ReadConstant, RunReference
    <3>2. PICK f \in Frames : f = [top EXCEPT !.at = "ran", !.acc = v]
      BY <1>2, <1>3, FrameUpdates
    <3>3. f.op = top.op /\ f.sig = top.sig /\ f.at = "ran"
      BY <1>1, <3>2, PaceTop
    <3> QED  BY <3>1, <3>2, <3>3
  <2> QED  BY <2>1, <2>2
<1>5. \A s \in Signals \ {top.sig} : stime'[s] = stime[s] /\ ready'[s] = ready[s]
  BY <1>2 DEF RunConstant, ReadConstant, RunReference, RunFunction, signalVars
<1>6. top.sig \in Paced => ~lastAsk[top.sig] \/ stime'[top.sig] = stime[top.sig]
  <2>1. RunFunction => top.at = "run"
    BY DEF RunFunction, At
  <2>2. RunFunction /\ top.sig \in Paced => ~lastAsk[top.sig]
    BY <1>1, <1>2, <2>1 DEF PaceFrame
  <2>3. RunConstant \/ RunReference => top.sig \notin Paced
    BY DEF RunConstant, RunReference, Paced
  <2>4. ReadConstant => stime' = stime
    BY DEF ReadConstant, signalVars
  <2> QED  BY <2>2, <2>3, <2>4
<1>7. top.at \notin {"ask", "asked"} /\ f.at \notin {"ask", "asked", "run"}
  BY <1>1, <1>4
<1> QED  BY <1>1, <1>4, <1>5, <1>6, <1>7, PaceTimes

LEMMA PaceBody ==
  ASSUME TypeOK, PaceInv, BodyReads \/ BodyGets \/ BodyEnds \/ BodyThrows
  PROVE  PaceInv'
<1>1. /\ stack # <<>> /\ top.op = "access" /\ top.at \in {"body", "input"}
      /\ UNCHANGED <<stime, ready, lastAsk, now>>
  BY DEF BodyReads, BodyGets, BodyEnds, BodyThrows, At, signalVars, clockVars
<1>2. /\ top \in Frames /\ top.sig \in Signals /\ top.it \in Nat \ {0} /\ top.acc \in Values
      /\ PaceFrame(top) /\ copy \in [Signals -> Values] /\ value \in Values
  BY <1>1, PaceTop, FrameUpdates DEF TypeOK
<1>3. FlagInv' /\ PaceStays
  BY <1>1, PaceQuiet DEF PaceInv
<1>4. "body" \in Places /\ "input" \in Places /\ "ran" \in Places
  BY DEF Places
<1>5. ASSUME NEW f \in Frames, f.op = top.op, f.sig = top.sig, Goto(f), f.at \in {"body", "ran"}
      PROVE  PaceInv'
  <2>1. top.at \notin {"ask", "asked"} /\ f.at \notin {"ask", "asked", "run"}
    BY <1>1, <1>5
  <2> QED  BY <1>1, <1>5, <2>1, PaceMoves
<1>6. CASE BodyReads
  <2> DEFINE d == Inputs[top.sig][top.it]
             next == [top EXCEPT !.it = @ + 1]
  <2>1. d \in Signals
    <3>1. Inputs[top.sig] \in Seq(Signals)
      BY <1>2, GraphAssumption
    <3> QED  BY <1>2, <1>6, <3>1, ElementOfSeq, LenProperties DEF BodyReads
  <2>2. top.at = "body"
    BY <1>6 DEF BodyReads, At
  <2>3. /\ next \in Frames /\ next.op = top.op /\ next.sig = top.sig
        /\ next.at = top.at /\ next.acc = top.acc
    <3>1. top = [op |-> top.op, sig |-> top.sig, at |-> top.at, it |-> top.it,
                 acc |-> top.acc]
      BY <1>2 DEF Frames
    <3> QED  BY <1>2, <3>1, FrameUpdates
  <2>4. \/ Goto([next EXCEPT !.acc = next.acc \cup copy[d]])
        \/ GotoCall([next EXCEPT !.at = "input"], CallAccess(d))
    BY <1>6 DEF BodyReads
  <2> HIDE DEF next
  <2>5. CASE Goto([next EXCEPT !.acc = next.acc \cup copy[d]])
    <3>1. PICK v \in Values : v = next.acc \cup copy[d]
      BY <1>2, <2>1, <2>3, ValueTypes
    <3>2. PICK f \in Frames : f = [next EXCEPT !.acc = v]
      BY <2>3, FrameUpdates
    <3>3. f.op = next.op /\ f.sig = next.sig /\ f.at = next.at
      <4>1. next = [op |-> next.op, sig |-> next.sig, at |-> next.at, it |-> next.it,
                    acc |-> next.acc]
        BY <2>3 DEF Frames
      <4> QED  BY <3>2, <4>1
    <3> QED  BY <1>5, <2>2, <2>3, <2>5, <3>1, <3>2, <3>3
  <2>6. CASE GotoCall([next EXCEPT !.at = "input"], CallAccess(d))
    <3>1. PICK f \in Frames : f = [next EXCEPT !.at = "input"]
      BY <1>4, <2>3, FrameUpdates
    <3>2. f.op = top.op /\ f.sig = top.sig /\ f.at = "input"
      BY <1>4, <2>3, <3>1, FrameFields
    <3>3. PICK c \in Frames : /\ c = CallAccess(d) /\ c.op = "access"
                              /\ c.at \in {"ask", "run"}
                              /\ c.at = "run" => c.sig \notin Paced
      BY <2>1, FrameTypes DEF CallAccess, Frame, Paced
    <3>4. GotoCall(f, c)
      BY <2>6, <3>1, <3>3
    <3> HIDE DEF d
    <3>5. f.sig \in Paced /\ lastAsk[f.sig] => Due(f.sig)
      BY <1>1, <1>2, <3>2 DEF PaceFrame
    <3>6. PaceFrame(f)' /\ PaceFrame(c)'
      BY <1>1, <3>2, <3>3, <3>5 DEF PaceFrame, Due
    <3>7. f.at \in {"asked", "input"} /\ c.at \notin {"asked", "input"}
      BY <3>2, <3>3
    <3>8. PaceStack'
      BY <1>1, <1>3, <3>2, <3>4, <3>6, <3>7, PaceCalls DEF PaceInv
    <3> QED  BY <1>3, <3>8 DEF PaceInv
  <2> QED  BY <2>4, <2>5, <2>6
<1>7. CASE BodyGets
  <2>1. PICK v \in Values : v = top.acc \cup value
    BY <1>2, ValueTypes
  <2>2. Goto([top EXCEPT !.at = "body", !.acc = v])
    BY <1>7, <2>1 DEF BodyGets
  <2>3. PICK f \in Frames : f = [top EXCEPT !.at = "body", !.acc = v]
    BY <1>2, <1>4, FrameUpdates
  <2>4. f.op = top.op /\ f.sig = top.sig /\ f.at = "body"
    BY <1>1, <2>3, PaceTop
  <2> QED  BY <1>5, <2>2, <2>3, <2>4
<1>8. CASE BodyEnds
  <2>1. PICK f \in Frames : f = [top EXCEPT !.at = "ran"]
    BY <1>2, <1>4, FrameUpdates
  <2>2. f.op = top.op /\ f.sig = top.sig /\ f.at = "ran"
    BY <1>2, <1>4, <2>1, FrameFields
  <2>3. Goto(f)
    BY <1>8, <2>1 DEF BodyEnds
  <2> QED  BY <1>5, <2>2, <2>3
<1>9. CASE BodyThrows
  <2>1. stack' = <<>>
    BY <1>9 DEF BodyThrows
  <2>2. PaceStack'
    BY <2>1 DEF PaceStack, Nested
  <2> QED  BY <1>3, <2>2 DEF PaceInv
<1> QED  BY <1>6, <1>7, <1>8, <1>9

LEMMA PaceReturned ==
  ASSUME TypeOK, PaceInv, AccessReturns
  PROVE  PaceInv'
<1>1. /\ stack # <<>> /\ top.op = "access" /\ top.at = "ran"
      /\ stack' = Tail(stack) /\ UNCHANGED <<stime, lastAsk, now>>
  BY DEF AccessReturns, ReturnValue, At, clockVars
<1>2. top.sig \in Signals /\ PaceFrame(top) /\ ready \in [Signals -> BOOLEAN]
  BY <1>1, PaceTop DEF TypeOK
<1>3. \A s \in Paced : s \in Signals /\ Due(s)' = Due(s)
  BY <1>1, GraphAssumption DEF Paced, Due
<1>4. \A s \in Paced : s # top.sig => ready'[s] = ready[s]
  BY <1>2, <1>3 DEF AccessReturns
<1>5. top.sig \in Paced /\ lastAsk[top.sig] => Due(top.sig)
  BY <1>1, <1>2 DEF PaceFrame
<1>6. FlagInv'
  BY <1>1, <1>3, <1>4, <1>5 DEF FlagInv, PaceInv
<1>7. PaceStays
  BY <1>1, <1>3 DEF PaceStays, PaceFrame
<1>8. \A g \in Frames : g.at = "input" => PaceTold(g)'
  BY DEF PaceTold
<1>9. PaceStack'
  BY <1>1, <1>7, <1>8, PaceReturns DEF PaceInv
<1> QED  BY <1>6, <1>9 DEF PaceInv

\* The control loop and the setters.
LEMMA PaceOutside ==
  ASSUME TypeOK, PaceInv,
         \/ \E s \in Roots : Access(s) \/ AskNeedUpdate(s)
         \/ \E s \in Forced : SetReady(s)
         \/ Tick \/ SetConstantReady \/ UNCHANGED vars
         \/ \E c \in Sources : SetConstant(c) \/ WriteReferenced(c)
  PROVE  PaceInv'
<1>1. ready \in [Signals -> BOOLEAN] /\ \A s \in Paced : s \in Signals
  BY GraphAssumption DEF TypeOK, Paced
<1>2. CASE \E s \in Roots : Access(s) \/ AskNeedUpdate(s)
  <2>1. PICK s \in Roots : Access(s) \/ AskNeedUpdate(s)
    BY <1>2
  <2>2. s \in Signals
    BY OptionAssumption
  <2>3. PICK c \in Frames : /\ stack' = <<c>>
                            /\ \/ c.op = "access" /\ c.at = "ask"
                               \/ c.op = "need" /\ c.at = "enter"
                               \/ c.op = "access" /\ c.at = "run" /\ c.sig \notin Paced
    BY <2>1, <2>2, FrameTypes
       DEF Access, AskNeedUpdate, CallFromLoop, CallAccess, CallNeed, Frame, Paced
  <2>4. FlagInv'
    BY <2>1, PaceQuiet DEF Access, AskNeedUpdate, CallFromLoop, signalVars, PaceInv
  <2>5. c.at \notin {"asked", "input"} /\ PaceFrame(c)'
    BY <2>3 DEF PaceFrame
  <2>6. PaceStack'
    BY <2>3, <2>5, PaceBegins
  <2> QED  BY <2>4, <2>6 DEF PaceInv
<1>3. ASSUME stack' = stack, answer' = answer, UNCHANGED <<stime, lastAsk>>,
             \A s \in Paced : (ready[s] => ready'[s]) /\ (Due(s) => Due(s)')
      PROVE  PaceInv'
  <2>1. FlagInv'
    BY <1>3 DEF FlagInv, PaceInv
  <2>2. \A g : (PaceFrame(g) => PaceFrame(g)') /\ (PaceTold(g) => PaceTold(g)')
    BY <1>3 DEF PaceFrame, PaceTold
  <2>3. PaceStack'
    BY <1>3, <2>2 DEF PaceStack, PaceInv
  <2> QED  BY <2>1, <2>3 DEF PaceInv
<1>4. ASSUME NEW s \in Forced, SetReady(s) PROVE PaceInv'
  <2>1. /\ stack' = stack /\ answer' = answer /\ UNCHANGED <<stime, lastAsk, now>>
        /\ ready' = [ready EXCEPT ![s] = TRUE]
    BY <1>4 DEF SetReady, callVars, clockVars
  <2>2. \A t \in Paced : (ready[t] => ready'[t]) /\ (Due(t) => Due(t)')
    BY <1>1, <2>1 DEF Due
  <2> QED  BY <1>3, <2>1, <2>2
<1>5. CASE Tick
  <2>1. /\ stack' = stack /\ answer' = answer /\ UNCHANGED <<stime, lastAsk, ready>>
        /\ now' = now + 1
    BY <1>5 DEF Tick, callVars, signalVars
  <2>2. ASSUME NEW t \in Paced, Due(t) PROVE Due(t)'
    <3>1. now \in Nat /\ stime[t] \in Nat /\ Period[t] \in Nat
      BY <1>1, GraphAssumption DEF TypeOK
    <3> QED  BY <2>1, <2>2, <3>1 DEF Due
  <2> QED  BY <1>3, <2>1, <2>2
<1>6. CASE SetConstantReady
  <2>1. /\ stack' = stack /\ answer' = answer /\ UNCHANGED <<stime, lastAsk, now>>
        /\ ready' = [ready EXCEPT ![setting] = TRUE]
    BY <1>6 DEF SetConstantReady, callVars, clockVars
  <2>2. \A t \in Paced : (ready[t] => ready'[t]) /\ (Due(t) => Due(t)')
    BY <1>1, <2>1 DEF Due
  <2> QED  BY <1>3, <2>1, <2>2
<1>7. CASE \/ UNCHANGED vars
           \/ \E c \in Sources : SetConstant(c) \/ WriteReferenced(c)
  <2>1. /\ stack' = stack /\ answer' = answer /\ UNCHANGED <<stime, lastAsk, now, ready>>
    BY <1>7 DEF SetConstant, WriteReferenced, vars, signalVars, callVars, clockVars
  <2>2. \A t \in Paced : (ready[t] => ready'[t]) /\ (Due(t) => Due(t)')
    BY <2>1 DEF Due
  <2> QED  BY <1>3, <2>1, <2>2
<1> QED  BY <1>2, <1>4, <1>5, <1>6, <1>7

LEMMA PaceAlways == Spec => []PaceInv
<1>1. Init => PaceInv
  <2> SUFFICES ASSUME Init PROVE PaceInv
    OBVIOUS
  <2>1. stack = <<>> /\ \A s \in Paced : ready[s]
    BY GraphAssumption DEF Init, Paced
  <2> QED  BY <2>1 DEF PaceInv, FlagInv, PaceStack, Nested
<1>2. TypeOK /\ PaceInv /\ [Next]_vars => PaceInv'
  <2> SUFFICES ASSUME TypeOK, PaceInv, [Next]_vars PROVE PaceInv'
    OBVIOUS
  <2>1. CASE Evaluate
    BY <2>1, PaceNeed, PaceAsk, PaceRuns, PaceBody, PaceReturned DEF Evaluate
  <2> QED  BY <2>1, PaceOutside DEF Next
<1> QED  BY <1>1, <1>2, TypeCorrect, PTL DEF Spec

\* Whatever the graph, and whoever asks needUpdate() in between, throws or sets: unless
\* setReady() asked for it, a time-dependent function does not run before its period is over.
THEOREM PacedAlways == Spec => OncePerPeriod
<1> DEFINE OnTime == RunFunction /\ top.sig \in TimeDep /\ Kind[top.sig] = "TIME_DEPENDENT"
                       /\ ~ready[top.sig]
                       => now >= stime[top.sig] + Period[top.sig]
<1>1. TypeOK /\ PaceInv => OnTime
  <2> SUFFICES ASSUME TypeOK, PaceInv, RunFunction, top.sig \in TimeDep,
                      Kind[top.sig] = "TIME_DEPENDENT", ~ready[top.sig]
               PROVE  now >= stime[top.sig] + Period[top.sig]
    OBVIOUS
  <2>1. /\ stack # <<>> /\ top.op = "access" /\ top.at = "run"
        /\ Type[top.sig] = "FUNCTION"
    BY DEF RunFunction, At
  <2>2. top.sig \in Paced /\ PaceFrame(top)
    BY <2>1, PaceTop DEF Paced
  <2> QED  BY <2>1, <2>2 DEF PaceFrame, Due
<1> HIDE DEF OnTime
<1>2. Spec => [][OnTime]_vars
  BY <1>1, TypeCorrect, PaceAlways, PTL DEF Spec
<1> QED  BY <1>2 DEF OncePerPeriod, OnTime

----------------------------------------------------------------------------
(* No needless run.                                                        *)

\* The graphs in which nothing is computed for another reason than a new version:
\* nobody calls setReady(), every function caches its result and none is ALWAYS_READY,
\* sources are CONSTANT, for one that is REFERENCE always is news, and a signal depends on
\* what its Tfunction reads only.
Frugal ==
  /\ Forced = {}
  /\ \A s \in Signals : Type[s] # "REFERENCE" /\ (Type[s] = "FUNCTION" => s \in TimeDep)
  /\ \A s \in TimeDep :
       Kind[s] # "ALWAYS_READY" /\ Range(DepArgs[s]) \subseteq Range(Inputs[s])

\* The present version of c is in the cached result of s.
Seen(s, c) == <<c, version[c]>> \in copy[s]

\* Why s may run: it never has, or a source below it has a version it has not seen.
Reason(s) == ready[s] \/ \E c \in Below(s) : ~Seen(s, c)

\* No result has a version that is still to come, or one that was not told yet.
SeenInv ==
  /\ \A s, c \in Signals : \A v \in Nat : <<c, v>> \in copy[s] => v <= version[c]
  /\ \A s \in Cached : \A c \in Sources : ready[c] \/ setting = c => ~Seen(s, c)

\* What a result has seen its inputs have, and what has run has run its inputs.
PassedInv ==
  \A s \in Cached : \A d \in Range(Inputs[s]) :
    /\ \A c \in Below(d) : Seen(s, c) => Seen(d, c)
    /\ d \in Cached /\ ready[d] => ready[s]

\* Times and sticky flags have a reason.
ReasonInv ==
  /\ \A s \in Cached : \A d \in Range(Inputs[s]) : stime[d] > stime[s] => Reason(s)
  /\ \A s \in TimeDep : lastAsk[s] => Reason(s)

\* Until a function has run for the first time, but for its return, it has no result.
FirstInv ==
  /\ \A s \in Cached : ready[s] /\ copy[s] # {} => At("access", "ran") /\ top.sig = s
  /\ setting # NoSignal => setting \in Sources

\* An evaluation that runs was not asked for again, and what it has read is not ready.
ReadSoFar(f) ==
  {k \in DOMAIN Inputs[f.sig] :
     \/ f.at = "ran"
     \/ f.at = "body" /\ k < f.it
     \/ f.at = "input" /\ k < f.it - 1}
ThriftFrame(f) ==
  f.op = "access" /\ f.at \in RunPlaces =>
    /\ f.sig \in TimeDep => ~lastAsk[f.sig]
    /\ \A k \in ReadSoFar(f) : ~ready[Inputs[f.sig][k]]

\* What the running function has been told, or starts from.
ThriftTold(f) ==
  /\ f.op = "need" /\ f.at = "asked" /\ answer => Reason(deps[f.sig][f.it])
  /\ f.op = "access" /\ f.at = "asked" /\ answer => Reason(f.sig)
  /\ f.op = "access" /\ f.at = "asked" /\ ~answer => ~ready[f.sig]
  /\ f.op = "access" /\ f.at = "input" => ~ready[Inputs[f.sig][f.it - 1]]
  /\ f.op = "access" /\ f.at = "run" /\ f.sig \in Cached => Reason(f.sig)

ThriftStack ==
  /\ \A i \in DOMAIN stack : ThriftFrame(stack[i])
  /\ stack # <<>> => ThriftTold(stack[1])

ThriftInv == SeenInv /\ PassedInv /\ ReasonInv /\ FirstInv /\ ThriftStack

\* All that is known of a reachable state.
Thrifty(Rank) == Safe(Rank) /\ ThriftInv

\* Signals are functions with a cached result and constants.
LEMMA FrugalGraph ==
  ASSUME Watchful, Frugal, NEW Rank, Ranks(Rank)
  PROVE  /\ \A s \in Cached : s \in Signals /\ s \in TimeDep /\ Type[s] = "FUNCTION"
         /\ \A s \in Signals \ Cached :
              Type[s] = "CONSTANT" /\ s \in Sources /\ Below(s) = {s} /\ Range(Inputs[s]) = {}
         /\ \A c \in Sources : c \in Signals /\ c \notin Cached
         /\ \A s \in Signals : \A c \in Below(s) : c \in Sources
         /\ \A s \in Signals : \A d \in Range(Inputs[s]) :
              d \in Signals /\ s \in Cached /\ d # s /\ \A c \in Below(d) : c \in Below(s)
<1>1. \A s \in Cached : s \in Signals /\ s \in TimeDep /\ Type[s] = "FUNCTION"
  BY GraphAssumption DEF Cached
<1>2. ASSUME NEW s \in Signals, s \notin Cached
      PROVE  Type[s] = "CONSTANT" /\ s \in Sources /\ Below(s) = {s} /\ Range(Inputs[s]) = {}
  <2>1. Type[s] \in {"CONSTANT", "REFERENCE", "FUNCTION"}
    BY GraphAssumption
  <2>2. Type[s] = "CONSTANT"
    BY <1>2, <2>1 DEF Frugal, Cached
  <2>3. s \in Sources
    BY <2>2 DEF Sources
  <2> QED  BY <2>2, <2>3, BelowSource DEF Watchful, Range
<1>3. \A c \in Sources : c \in Signals /\ c \notin Cached
  BY DEF Sources, Cached
<1>4. \A s \in Signals : \A c \in Below(s) : c \in Sources
  BY DEF Below
<1>5. ASSUME NEW s \in Signals, NEW d \in Range(Inputs[s])
      PROVE  d \in Signals /\ s \in Cached /\ d # s /\ \A c \in Below(d) : c \in Below(s)
  <2>1. PICK k \in DOMAIN Inputs[s] : d = Inputs[s][k]
    BY DEF Range
  <2>2. d \in Signals
    BY <2>1, GraphAssumption, ElementOfSeq, LenProperties
  <2>3. Rank[d] < Rank[s] /\ Rank[s] \in Nat
    BY <2>1 DEF Ranks, IsRanking
  <2>4. s \in Cached
    BY <1>2, <1>5
  <2>5. \A c \in Below(d) : c \in Below(s)
    BY <1>1, <1>5, <2>4, BelowFunction
  <2> QED  BY <2>2, <2>3, <2>4, <2>5
<1> QED  BY <1>1, <1>2, <1>3, <1>4, <1>5

\* What is new to an input is new to the function that reads it.
LEMMA ReasonUp ==
  ASSUME Watchful, Frugal, NEW Rank, Ranks(Rank), Thrifty(Rank),
         NEW s \in Signals, NEW d \in Range(Inputs[s]), Reason(d)
  PROVE  Reason(s)
<1>1. d \in Signals /\ s \in Cached /\ \A c \in Below(d) : c \in Below(s)
  BY FrugalGraph
<1>2. SeenInv /\ PassedInv /\ SourcesInv
  BY DEF Thrifty, ThriftInv, Safe, FreshInv
<1>3. CASE d \notin Cached
  <2>1. Type[d] = "CONSTANT" /\ d \in Sources /\ Below(d) = {d}
    BY <1>1, <1>3, FrugalGraph
  <2>2. ready[d]
    BY <1>1, <1>2, <2>1 DEF Reason, Seen, SourcesInv
  <2> QED  BY <1>1, <1>2, <2>1, <2>2 DEF Reason, SeenInv
<1>4. CASE d \in Cached
  BY <1>1, <1>2, <1>4 DEF Reason, PassedInv
<1> QED  BY <1>3, <1>4

\* The frames after a step: those that wait, and the new ones.
LEMMA ThriftGoes ==
  ASSUME TypeOK, ThriftStack, stack # <<>>, NEW f \in Frames, Goto(f),
         ThriftFrame(f)', ThriftTold(f)',
         \A g \in Frames : Pending(g) /\ ThriftFrame(g) => ThriftFrame(g)'
  PROVE  ThriftStack'
<1>1. /\ DOMAIN stack' = DOMAIN stack /\ stack'[1] = f
      /\ \A i \in DOMAIN stack : i # 1 => stack'[i] = stack[i]
  BY GotoFrames
<1>2. \A i \in DOMAIN stack : stack[i] \in Frames
  BY StackShape
<1>3. ASSUME NEW i \in DOMAIN stack PROVE ThriftFrame(stack[i])'
  <2>1. CASE i = 1
    BY <1>1, <2>1
  <2>2. CASE i # 1
    <3>1. Pending(stack[i]) /\ ThriftFrame(stack[i]) /\ stack[i] \in Frames
      BY <1>2, <2>2 DEF Pending, ThriftStack
    <3> QED  BY <1>1, <2>2, <3>1
  <2> QED  BY <2>1, <2>2
<1>4. ThriftTold(stack[1])'
  BY <1>1
<1> QED  BY <1>1, <1>3, <1>4 DEF ThriftStack

LEMMA ThriftCalls ==
  ASSUME TypeOK, ThriftStack, stack # <<>>, NEW f \in Frames, NEW c \in Frames,
         GotoCall(f, c), ThriftFrame(f)', ThriftFrame(c)', ThriftTold(c)',
         \A g \in Frames : Pending(g) /\ ThriftFrame(g) => ThriftFrame(g)'
  PROVE  ThriftStack'
<1>1. /\ DOMAIN stack' = 1 .. Len(stack) + 1
      /\ stack'[1] = c /\ stack'[2] = f
      /\ \A i \in DOMAIN stack : i # 1 => stack'[i + 1] = stack[i]
  BY CallFrames
<1>2. /\ \A i \in DOMAIN stack : stack[i] \in Frames
      /\ DOMAIN stack = 1 .. Len(stack) /\ Len(stack) \in Nat
  BY StackShape
<1>3. ASSUME NEW j \in DOMAIN stack' PROVE ThriftFrame(stack[j])'
  <2>1. j = 1 \/ j = 2 \/ (j - 1 \in DOMAIN stack /\ j - 1 # 1 /\ j = (j - 1) + 1)
    BY <1>1, <1>2
  <2>2. CASE j \in {1, 2}
    BY <1>1, <2>2
  <2>3. CASE j - 1 \in DOMAIN stack /\ j - 1 # 1 /\ j = (j - 1) + 1
    <3>1. PICK i \in DOMAIN stack : i # 1 /\ j = i + 1
      BY <2>3
    <3>2. Pending(stack[i]) /\ ThriftFrame(stack[i]) /\ stack[i] \in Frames
      BY <1>2, <3>1 DEF Pending, ThriftStack
    <3>3. stack'[j] = stack[i]
      BY <1>1, <3>1
    <3> QED  BY <3>2, <3>3
  <2> QED  BY <2>1, <2>2, <2>3
<1>4. ThriftTold(stack[1])'
  BY <1>1
<1> QED  BY <1>3, <1>4 DEF ThriftStack

LEMMA ThriftReturns ==
  ASSUME TypeOK, StackInv, ThriftStack, stack # <<>>, stack' = Tail(stack),
         \A g \in Frames : Pending(g) /\ ThriftFrame(g) => ThriftFrame(g)',
         \A g \in Frames : ~outermost /\ Calls(g, top) => ThriftTold(g)'
  PROVE  ThriftStack'
<1>1. /\ \A i \in DOMAIN stack' : i + 1 \in DOMAIN stack /\ stack'[i] = stack[i + 1]
      /\ outermost <=> stack' = <<>>
      /\ stack' # <<>> => 1 \in DOMAIN stack' /\ 2 \in DOMAIN stack
  BY ReturnFrames
<1>2. /\ top = stack[1] /\ \A i \in DOMAIN stack : stack[i] \in Frames
      /\ DOMAIN stack' = 1 .. Len(stack) - 1 /\ Len(stack) \in Nat
  BY StackShape, ReturnFrames
<1>3. ASSUME NEW i \in DOMAIN stack' PROVE ThriftFrame(stack[i])'
  <2>1. i + 1 \in DOMAIN stack /\ i + 1 # 1 /\ stack'[i] = stack[i + 1]
    BY <1>1, <1>2
  <2>2. Pending(stack[i + 1]) /\ ThriftFrame(stack[i + 1]) /\ stack[i + 1] \in Frames
    BY <1>2, <2>1 DEF Pending, ThriftStack
  <2> QED  BY <2>1, <2>2
<1>4. ASSUME stack' # <<>> PROVE ThriftTold(stack[1])'
  <2>1. 2 \in DOMAIN stack /\ 2 # 1 /\ stack'[1] = stack[2] /\ 2 - 1 = 1
    BY <1>1, <1>4
  <2>2. stack[2] \in Frames /\ Calls(stack[2], top)
    BY <1>2, <2>1 DEF StackInv
  <2> QED  BY <1>1, <1>4, <2>1, <2>2
<1> QED  BY <1>3, <1>4 DEF ThriftStack

\* The calls that wait know what they knew if no flag is raised, but for the sticky flag
\* of a running needUpdate().
LEMMA ThriftWaits ==
  ASSUME Watchful, NEW Rank, Ranks(Rank), Safe(Rank), stack # <<>>,
         \A s \in Signals : ready'[s] => ready[s],
         \A s \in Signals : lastAsk'[s] => lastAsk[s] \/ (top.op = "need" /\ s = top.sig)
  PROVE  \A g \in Frames : Pending(g) /\ ThriftFrame(g) => ThriftFrame(g)'
<1> SUFFICES ASSUME NEW g \in Frames, Pending(g), ThriftFrame(g),
                    g.op = "access", g.at \in RunPlaces
             PROVE  /\ g.sig \in TimeDep => ~lastAsk'[g.sig]
                    /\ \A k \in ReadSoFar(g) : ~ready'[Inputs[g.sig][k]]
  BY DEF ThriftFrame, ReadSoFar
<1>1. g.sig \in Signals
  BY FrameUpdates
<1>2. \A k \in ReadSoFar(g) : Inputs[g.sig][k] \in Signals
  BY <1>1, GraphAssumption, ElementOfSeq, LenProperties DEF ReadSoFar
<1>3. Running(g.sig)
  BY DEF Pending, Running
<1>4. top.op = "need" => g.sig # top.sig
  BY <1>3, NeedAlone
<1> QED  BY <1>1, <1>2, <1>4 DEF ThriftFrame

\* A step that changes no time, flag or result of a signal, but sticky flags for a reason.
LEMMA ThriftQuiet ==
  ASSUME Watchful, Frugal, NEW Rank, Ranks(Rank), Thrifty(Rank), stack # <<>>,
         UNCHANGED <<stime, ready, copy, version, setting>>, ~At("access", "ran"),
         \A s \in Signals : lastAsk'[s] =>
           lastAsk[s] \/ (top.op = "need" /\ s = top.sig /\ Reason(s))
  PROVE  /\ SeenInv' /\ PassedInv' /\ ReasonInv' /\ FirstInv'
         /\ \A s : Reason(s)' = Reason(s)
         /\ \A g \in Frames : Pending(g) /\ ThriftFrame(g) => ThriftFrame(g)'
<1>1. SeenInv /\ PassedInv /\ ReasonInv /\ FirstInv
  BY DEF Thrifty, ThriftInv
<1>2. \A s, c : Seen(s, c)' = Seen(s, c)
  BY DEF Seen
<1>3. \A s : Reason(s)' = Reason(s)
  BY <1>2 DEF Reason
<1>4. SeenInv' /\ PassedInv'
  BY <1>1, <1>2 DEF SeenInv, PassedInv
<1>5. ReasonInv'
  <2>1. TimeDep \subseteq Signals
    BY GraphAssumption
  <2> QED  BY <1>1, <1>3, <2>1 DEF ReasonInv
<1>6. FirstInv'
  BY <1>1 DEF FirstInv
<1>7. \A g \in Frames : Pending(g) /\ ThriftFrame(g) => ThriftFrame(g)'
  BY ThriftWaits DEF Thrifty
<1> QED  BY <1>3, <1>4, <1>5, <1>6, <1>7

\* The running call, and the frames that the steps make of it.
LEMMA ThriftTop ==
  ASSUME NEW Rank, Thrifty(Rank), stack # <<>>
  PROVE  /\ TypeOK /\ StackInv /\ ThriftStack /\ ClockInv
         /\ top \in Frames /\ top.sig \in Signals /\ top.it \in Nat \ {0}
         /\ top.acc \in Values
         /\ FrameOK(top) /\ ThriftFrame(top) /\ ThriftTold(top)
         /\ top = [op |-> top.op, sig |-> top.sig, at |-> top.at, it |-> top.it,
                   acc |-> top.acc]
<1>1. TypeOK /\ StackInv /\ ThriftStack /\ ClockInv
  BY DEF Thrifty, ThriftInv, Safe, FreshInv
<1>2. top = stack[1] /\ 1 \in DOMAIN stack
  BY <1>1, StackShape
<1>3. /\ top \in Frames /\ top.sig \in Signals /\ top.it \in Nat \ {0}
      /\ top.acc \in Values /\ FrameOK(top)
  BY Given DEF Thrifty
<1>4. ThriftFrame(top) /\ ThriftTold(top)
  BY <1>1, <1>2 DEF ThriftStack
<1>5. top = [op |-> top.op, sig |-> top.sig, at |-> top.at, it |-> top.it, acc |-> top.acc]
  BY <1>3 DEF Frames
<1> QED  BY <1>1, <1>3, <1>4, <1>5

LEMMA MovedTop ==
  ASSUME top \in Frames, NEW x \in Places
  PROVE  \E f \in Frames : /\ f = [top EXCEPT !.at = x]
                           /\ f.op = top.op /\ f.sig = top.sig /\ f.at = x
                           /\ f.it = top.it /\ f.acc = top.acc
BY FrameUpdates, FrameFields

\* needUpdate() answers.
LEMMA ThriftAnswers ==
  ASSUME Watchful, Frugal, NEW Rank, Ranks(Rank), Thrifty(Rank), stack # <<>>,
         top.op = "need", NEW yes \in BOOLEAN, ReturnAnswer(yes),
         yes => Reason(top.sig), ~yes => ~ready[top.sig],
         UNCHANGED <<stime, ready, copy, deps, version, setting>>,
         lastAsk' = lastAsk \/ lastAsk' = [lastAsk EXCEPT ![top.sig] = yes]
  PROVE  ThriftInv'
<1>1. stack' = Tail(stack) /\ (~outermost => answer' = yes)
  BY DEF ReturnAnswer
<1>2. TypeOK /\ StackInv /\ ThriftStack /\ lastAsk \in [Signals -> BOOLEAN]
  BY ThriftTop DEF TypeOK
<1>3. \A s \in Signals : lastAsk'[s] =>
        lastAsk[s] \/ (top.op = "need" /\ s = top.sig /\ Reason(s))
  BY <1>2
<1>4. ~At("access", "ran")
  BY DEF At
<1>5. /\ SeenInv' /\ PassedInv' /\ ReasonInv' /\ FirstInv'
      /\ \A s : Reason(s)' = Reason(s)
      /\ \A g \in Frames : Pending(g) /\ ThriftFrame(g) => ThriftFrame(g)'
  BY <1>3, <1>4, ThriftQuiet
<1>6. ASSUME NEW g \in Frames, ~outermost, Calls(g, top) PROVE ThriftTold(g)'
  <2>0. PICK s : s = top.sig
    OBVIOUS
  <2>1. \/ g.op = "need" /\ g.at = "asked" /\ s = deps[g.sig][g.it]
        \/ g.op = "access" /\ g.at = "asked" /\ s = g.sig
    BY <1>6, <2>0 DEF Calls
  <2>2. (answer' => Reason(s)') /\ (~answer' => ~ready'[s])
    BY <1>1, <1>5, <1>6, <2>0
  <2> QED  BY <2>1, <2>2 DEF ThriftTold
<1>7. ThriftStack'
  BY <1>1, <1>2, <1>5, <1>6, ThriftReturns
<1> QED  BY <1>5, <1>7 DEF ThriftInv

\* It goes on.
LEMMA ThriftGoesOn ==
  ASSUME Watchful, Frugal, NEW Rank, Ranks(Rank), Thrifty(Rank), stack # <<>>,
         top.op = "need", NEW f \in Frames, f.op = "need", f.at = "loop", Goto(f),
         UNCHANGED <<stime, ready, lastAsk, copy, version, setting>>
  PROVE  ThriftInv'
<1>1. TypeOK /\ ThriftStack
  BY ThriftTop
<1>2. ~At("access", "ran")
  BY DEF At
<1>3. /\ SeenInv' /\ PassedInv' /\ ReasonInv' /\ FirstInv'
      /\ \A g \in Frames : Pending(g) /\ ThriftFrame(g) => ThriftFrame(g)'
  BY <1>2, ThriftQuiet
<1>4. ThriftFrame(f)' /\ ThriftTold(f)'
  BY DEF ThriftFrame, ThriftTold
<1>5. ThriftStack'
  BY <1>1, <1>3, <1>4, ThriftGoes
<1> QED  BY <1>3, <1>5 DEF ThriftInv

LEMMA ThriftEnter ==
  ASSUME Watchful, Frugal, NEW Rank, Ranks(Rank), Thrifty(Rank), NeedEnter
  PROVE  ThriftInv'
<1> DEFINE yes == \/ ready[top.sig]
                  \/ top.sig \in TimeDep /\ (lastAsk[top.sig] \/ Kind[top.sig] = "ALWAYS_READY")
<1>1. /\ stack # <<>> /\ top.op = "need"
      /\ UNCHANGED <<stime, ready, lastAsk, copy, deps, version, setting>>
      /\ \/ yes /\ ReturnAnswer(TRUE)
         \/ ~yes /\ ReturnAnswer(FALSE)
         \/ Goto([top EXCEPT !.at = "loop"])
  BY DEF NeedEnter, At, signalVars, setVars
<1>2. top \in Frames /\ "loop" \in Places
  BY <1>1, ThriftTop DEF Places
<1>3. yes => Reason(top.sig)
  BY DEF Reason, Frugal, Thrifty, ThriftInv, ReasonInv
<1>4. ~yes => ~ready[top.sig]
  OBVIOUS
<1> HIDE DEF yes
<1>5. CASE yes /\ ReturnAnswer(TRUE)
  BY <1>1, <1>3, <1>5, ThriftAnswers
<1>6. CASE ~yes /\ ReturnAnswer(FALSE)
  BY <1>1, <1>4, <1>6, ThriftAnswers
<1>7. CASE Goto([top EXCEPT !.at = "loop"])
  <2>1. PICK f \in Frames : /\ f = [top EXCEPT !.at = "loop"]
                            /\ f.op = top.op /\ f.at = "loop"
    BY <1>2, MovedTop
  <2> QED  BY <1>1, <1>7, <2>1, ThriftGoesOn
<1> QED  BY <1>1, <1>5, <1>6, <1>7

LEMMA ThriftVerdict ==
  ASSUME Watchful, Frugal, NEW Rank, Ranks(Rank), Thrifty(Rank), stack # <<>>,
         top.op = "need", NEW yes \in BOOLEAN, NeedVerdict(yes),
         yes => Reason(top.sig),
         UNCHANGED <<stime, ready, deps, copy, version, setting>>
  PROVE  ThriftInv'
<1>1. top \in Frames /\ "loop" \in Places
  BY ThriftTop DEF Places
<1>2. CASE yes
  <2>1. lastAsk' = [lastAsk EXCEPT ![top.sig] = TRUE] /\ ReturnAnswer(TRUE)
    BY <1>2 DEF NeedVerdict, NeedResult, Watchful
  <2> QED  BY <1>2, <2>1, ThriftAnswers
<1>3. CASE ~yes
  <2>1. Goto([top EXCEPT !.at = "loop", !.it = @ + 1]) /\ lastAsk' = lastAsk
    BY <1>3 DEF NeedVerdict, Watchful
  <2>2. PICK f \in Frames : f = [top EXCEPT !.at = "loop", !.it = @ + 1]
    BY <1>1, FrameUpdates
  <2>3. f.op = top.op /\ f.at = "loop"
    BY <1>1, <2>2, NextFields
  <2> QED  BY <2>1, <2>2, <2>3, ThriftGoesOn
<1> QED  BY <1>2, <1>3

\* The dependencies of a signal are inputs of its Tfunction.
LEMMA FrugalDeps ==
  ASSUME Watchful, Frugal, NEW Rank, Thrifty(Rank), NEW s \in TimeDep,
         NEW k \in DOMAIN deps[s]
  PROVE  deps[s][k] \in Signals /\ deps[s][k] \in Range(Inputs[s])
<1>1. s \in Signals /\ ClockInv
  BY GraphAssumption DEF Thrifty, Safe, FreshInv
<1>2. deps[s][k] \in Signals /\ \E j \in DOMAIN DepArgs[s] : deps[s][k] = DepArgs[s][j]
  BY <1>1, Lists
<1>3. deps[s][k] \in Range(DepArgs[s])
  BY <1>2 DEF Range
<1> QED  BY <1>2, <1>3 DEF Frugal

LEMMA ThriftDependency ==
  ASSUME Watchful, Frugal, NEW Rank, Ranks(Rank), Thrifty(Rank), NeedDependency
  PROVE  ThriftInv'
<1>1. /\ stack # <<>> /\ top.op = "need" /\ top.at = "loop"
      /\ top.it <= Len(deps[top.sig])
      /\ UNCHANGED <<stime, ready, deps, copy, version, setting>>
  BY DEF NeedDependency, At, setVars
<1>2. /\ top \in Frames /\ top.sig \in Signals /\ top.it \in Nat \ {0}
      /\ top.sig \in TimeDep /\ ThriftStack /\ TypeOK
  BY <1>1, ThriftTop DEF FrameOK, NeedFrame
<1>3. top.it \in DOMAIN deps[top.sig]
  BY <1>1, <1>2, ElementOfSeq, LenProperties DEF TypeOK
<1>4. PICK d \in Signals : d = deps[top.sig][top.it] /\ d \in Range(Inputs[top.sig])
  BY <1>2, <1>3, FrugalDeps
<1>5. CASE stime[d] > stime[top.sig]
  <2>1. NeedVerdict(TRUE)
    BY <1>4, <1>5 DEF NeedDependency
  <2>2. top.sig \in Cached
    BY <1>2, <1>4, FrugalGraph
  <2>3. Reason(top.sig)
    BY <1>4, <1>5, <2>2 DEF Thrifty, ThriftInv, ReasonInv
  <2> QED  BY <1>1, <2>1, <2>3, ThriftVerdict
<1>6. CASE ~(stime[d] > stime[top.sig])
  <2>1. PICK f \in Frames : f = [top EXCEPT !.at = "asked"] /\ f.op = top.op
    <3>1. "asked" \in Places
      BY DEF Places
    <3> QED  BY <1>2, <3>1, MovedTop
  <2>2. PICK c \in Frames : c = CallNeed(d) /\ c.op = "need" /\ c.at = "enter"
    BY FrameTypes DEF CallNeed, Frame
  <2>3. GotoCall(f, c) /\ lastAsk' = lastAsk
    BY <1>4, <1>6, <2>1, <2>2 DEF NeedDependency
  <2>4. ~At("access", "ran")
    BY <1>1 DEF At
  <2>5. /\ SeenInv' /\ PassedInv' /\ ReasonInv' /\ FirstInv'
        /\ \A g \in Frames : Pending(g) /\ ThriftFrame(g) => ThriftFrame(g)'
    BY <1>1, <2>3, <2>4, ThriftQuiet
  <2>6. ThriftFrame(f)' /\ ThriftFrame(c)' /\ ThriftTold(c)'
    BY <1>1, <2>1, <2>2 DEF ThriftFrame, ThriftTold
  <2>7. ThriftStack'
    BY <1>1, <1>2, <2>3, <2>5, <2>6, ThriftCalls
  <2> QED  BY <2>5, <2>7 DEF ThriftInv
<1> QED  BY <1>5, <1>6

LEMMA ThriftAsked ==
  ASSUME Watchful, Frugal, NEW Rank, Ranks(Rank), Thrifty(Rank), NeedAsked
  PROVE  ThriftInv'
<1>1. /\ stack # <<>> /\ top.op = "need" /\ top.at = "asked" /\ NeedVerdict(answer)
      /\ UNCHANGED <<stime, ready, deps, copy, version, setting>>
  BY DEF NeedAsked, At, setVars
<1>2. /\ answer \in BOOLEAN /\ top.sig \in TimeDep /\ top.sig \in Signals
      /\ top.it \in DOMAIN deps[top.sig] /\ ThriftTold(top)
  BY <1>1, ThriftTop DEF FrameOK, NeedFrame, TypeOK
<1>3. PICK d \in Signals : d = deps[top.sig][top.it] /\ d \in Range(Inputs[top.sig])
  BY <1>2, FrugalDeps
<1>4. answer => Reason(d)
  BY <1>1, <1>2, <1>3 DEF ThriftTold
<1>5. answer => Reason(top.sig)
  BY <1>2, <1>3, <1>4, ReasonUp
<1> QED  BY <1>1, <1>2, <1>5, ThriftVerdict

LEMMA ThriftLoopEnds ==
  ASSUME Watchful, Frugal, NEW Rank, Ranks(Rank), Thrifty(Rank), NeedLoopEnds
  PROVE  ThriftInv'
<1>1. /\ stack # <<>> /\ top.op = "need" /\ top.at = "loop"
      /\ UNCHANGED <<stime, ready, deps, copy, version, setting>>
  BY DEF NeedLoopEnds, At, setVars
<1>2. ~ready[top.sig]
  BY <1>1, ThriftTop DEF FrameOK, NeedFrame
<1>3. (top.sig \in AllChildren) = FALSE
  BY DEF Watchful
<1>4. NeedResult(FALSE)
  BY <1>3 DEF NeedLoopEnds
<1>5. lastAsk' = [lastAsk EXCEPT ![top.sig] = FALSE] /\ ReturnAnswer(FALSE)
  BY <1>4 DEF NeedResult
<1> QED  BY <1>1, <1>2, <1>5, ThriftAnswers

\* A step of access() that changes no time, flag or result.
LEMMA ThriftMoves ==
  ASSUME Watchful, Frugal, NEW Rank, Ranks(Rank), Thrifty(Rank), stack # <<>>,
         top.op = "access", top.at # "ran", NEW f \in Frames, Goto(f),
         UNCHANGED <<stime, ready, copy, version, setting>>,
         \A s \in Signals : lastAsk'[s] => lastAsk[s],
         ThriftFrame(f)', ThriftTold(f)'
  PROVE  ThriftInv'
<1>1. TypeOK /\ ThriftStack
  BY ThriftTop
<1>2. ~At("access", "ran")
  BY DEF At
<1>3. /\ SeenInv' /\ PassedInv' /\ ReasonInv' /\ FirstInv'
      /\ \A g \in Frames : Pending(g) /\ ThriftFrame(g) => ThriftFrame(g)'
  BY <1>2, ThriftQuiet
<1>4. ThriftStack'
  BY <1>1, <1>3, ThriftGoes
<1> QED  BY <1>3, <1>4 DEF ThriftInv

\* A call of access().
LEMMA ThriftAccessCalls ==
  ASSUME Watchful, Frugal, NEW Rank, Ranks(Rank), Thrifty(Rank), stack # <<>>,
         top.op = "access", top.at # "ran", NEW f \in Frames, NEW c \in Frames,
         GotoCall(f, c), UNCHANGED <<stime, ready, lastAsk, copy, version, setting>>,
         ThriftFrame(f)', ThriftFrame(c)', ThriftTold(c)'
  PROVE  ThriftInv'
<1>1. TypeOK /\ ThriftStack
  BY ThriftTop
<1>2. ~At("access", "ran")
  BY DEF At
<1>3. /\ SeenInv' /\ PassedInv' /\ ReasonInv' /\ FirstInv'
      /\ \A g \in Frames : Pending(g) /\ ThriftFrame(g) => ThriftFrame(g)'
  BY <1>2, ThriftQuiet
<1>4. ThriftStack'
  BY <1>1, <1>3, ThriftCalls
<1> QED  BY <1>3, <1>4 DEF ThriftInv

\* A new call of access() knows nothing yet; a plain signal is a constant.
LEMMA ThriftNew ==
  ASSUME Watchful, Frugal, NEW Rank, Ranks(Rank), NEW s \in Signals
  PROVE  /\ \E c \in Frames : /\ c = CallAccess(s)
                              /\ c.op = "access" /\ c.sig = s /\ c.at \in {"ask", "run"}
                              /\ c.at = "run" => s \notin TimeDep
                              /\ ThriftFrame(c)' /\ ThriftTold(c)'
         /\ \E c \in Frames : c = CallNeed(s) /\ ThriftFrame(c)' /\ ThriftTold(c)'
<1>1. PICK c \in Frames : /\ c = CallAccess(s)
                          /\ c.op = "access" /\ c.sig = s /\ c.at \in {"ask", "run"}
                          /\ c.at = "run" => s \notin TimeDep
  BY FrameTypes DEF CallAccess, Frame
<1>2. ThriftFrame(c)' /\ ThriftTold(c)'
  <2>1. ReadSoFar(c)' = {}
    BY <1>1 DEF ReadSoFar
  <2>2. c.at = "run" => c.sig \notin TimeDep /\ c.sig \notin Cached
    BY <1>1 DEF Cached
  <2>3. c.at \in RunPlaces => c.at = "run"
    BY <1>1 DEF RunPlaces
  <2>4. ThriftFrame(c)'
    BY <2>1, <2>2, <2>3 DEF ThriftFrame
  <2>5. ThriftTold(c)'
    BY <1>1, <2>2 DEF ThriftTold
  <2> QED  BY <2>4, <2>5
<1>3. PICK n \in Frames : n = CallNeed(s) /\ n.op = "need" /\ n.at = "enter"
  BY FrameTypes DEF CallNeed, Frame
<1>4. ThriftFrame(n)' /\ ThriftTold(n)'
  BY <1>3 DEF ThriftFrame, ThriftTold
<1> QED  BY <1>1, <1>2, <1>3, <1>4

LEMMA ThriftAsk ==
  ASSUME Watchful, Frugal, NEW Rank, Ranks(Rank), Thrifty(Rank), AccessAsk
  PROVE  ThriftInv'
<1>1. /\ stack # <<>> /\ top.op = "access" /\ top.at = "ask"
      /\ UNCHANGED <<stime, ready, lastAsk, copy, version, setting>>
      /\ GotoCall([top EXCEPT !.at = "asked"], CallNeed(top.sig))
  BY DEF AccessAsk, At, signalVars, setVars
<1>2. top \in Frames /\ top.sig \in Signals /\ "asked" \in Places
  BY <1>1, ThriftTop DEF Places
<1>3. PICK f \in Frames : f = [top EXCEPT !.at = "asked"] /\ f.at = "asked"
  BY <1>2, MovedTop
<1>4. PICK c \in Frames : c = CallNeed(top.sig) /\ ThriftFrame(c)' /\ ThriftTold(c)'
  BY <1>2, ThriftNew
<1>5. ThriftFrame(f)'
  BY <1>3 DEF ThriftFrame, RunPlaces
<1> QED  BY <1>1, <1>3, <1>4, <1>5, ThriftAccessCalls

LEMMA ThriftUpdate ==
  ASSUME Watchful, Frugal, NEW Rank, Ranks(Rank), Thrifty(Rank), AccessUpdate
  PROVE  ThriftInv'
<1>1. /\ stack # <<>> /\ top.op = "access" /\ top.at = "asked" /\ answer
      /\ UNCHANGED <<stime, ready, copy, version, setting>>
      /\ lastAsk' = [lastAsk EXCEPT ![top.sig] = FALSE]
      /\ Goto([top EXCEPT !.at = "run"])
  BY DEF AccessUpdate, At, setVars
<1>2. /\ top \in Frames /\ top.sig \in Signals /\ "run" \in Places /\ ThriftTold(top)
      /\ lastAsk \in [Signals -> BOOLEAN]
  BY <1>1, ThriftTop DEF Places, TypeOK
<1>3. PICK f \in Frames : /\ f = [top EXCEPT !.at = "run"] /\ f.op = "access"
                          /\ f.at = "run" /\ f.sig = top.sig
  BY <1>1, <1>2, MovedTop
<1>4. PICK s \in Signals : s = top.sig
  BY <1>2
<1>5. Reason(s)' /\ ~lastAsk'[s]
  BY <1>1, <1>2, <1>4 DEF ThriftTold, Reason, Seen
<1>6. ThriftFrame(f)' /\ ThriftTold(f)'
  BY <1>3, <1>4, <1>5 DEF ThriftFrame, ThriftTold, ReadSoFar
<1>7. \A x \in Signals : lastAsk'[x] => lastAsk[x]
  BY <1>1, <1>2
<1> QED  BY <1>1, <1>3, <1>6, <1>7, ThriftMoves

\* access() returns, to the application or to the function that reads the result.
LEMMA ThriftGives ==
  ASSUME NEW Rank, Thrifty(Rank), stack # <<>>,
         top.op = "access", stack' = Tail(stack), ~ready'[top.sig],
         \A g \in Frames : Pending(g) /\ ThriftFrame(g) => ThriftFrame(g)'
  PROVE  ThriftStack'
<1>1. TypeOK /\ StackInv /\ ThriftStack
  BY ThriftTop
<1>2. ASSUME NEW g \in Frames, ~outermost, Calls(g, top) PROVE ThriftTold(g)'
  <2>0. PICK s : s = top.sig
    OBVIOUS
  <2>1. g.op = "access" /\ g.at = "input" /\ s = Inputs[g.sig][g.it - 1] /\ ~ready'[s]
    BY <1>2, <2>0 DEF Calls
  <2> QED  BY <2>1 DEF ThriftTold
<1> QED  BY <1>1, <1>2, ThriftReturns

LEMMA ThriftCached ==
  ASSUME Watchful, Frugal, NEW Rank, Ranks(Rank), Thrifty(Rank), AccessCached
  PROVE  ThriftInv'
<1>1. /\ stack # <<>> /\ top.op = "access" /\ top.at = "asked" /\ ~answer
      /\ UNCHANGED <<stime, ready, lastAsk, copy, version, setting>>
      /\ stack' = Tail(stack)
  BY DEF AccessCached, At, signalVars, setVars, ReturnValue
<1>2. ~ready'[top.sig]
  BY <1>1, ThriftTop DEF ThriftTold
<1>3. ~At("access", "ran")
  BY <1>1 DEF At
<1>4. /\ SeenInv' /\ PassedInv' /\ ReasonInv' /\ FirstInv'
      /\ \A g \in Frames : Pending(g) /\ ThriftFrame(g) => ThriftFrame(g)'
  BY <1>1, <1>3, ThriftQuiet
<1>5. ThriftStack'
  BY <1>1, <1>2, <1>4, ThriftGives
<1> QED  BY <1>4, <1>5 DEF ThriftInv

LEMMA ThriftReads ==
  ASSUME Watchful, Frugal, NEW Rank, Ranks(Rank), Thrifty(Rank), BodyReads
  PROVE  ThriftInv'
<1> DEFINE next == [top EXCEPT !.it = @ + 1]
<1>1. /\ stack # <<>> /\ top.op = "access" /\ top.at = "body"
      /\ top.it <= Len(Inputs[top.sig])
      /\ UNCHANGED <<stime, ready, lastAsk, copy, version, setting>>
      /\ GotoCall([next EXCEPT !.at = "input"], CallAccess(Inputs[top.sig][top.it]))
  BY DEF BodyReads, At, signalVars, setVars, Watchful
<1>2. /\ top \in Frames /\ top.sig \in Signals /\ top.it \in Nat \ {0}
      /\ ThriftFrame(top)
  BY <1>1, ThriftTop
<1>3. PICK d \in Signals : d = Inputs[top.sig][top.it]
  <2>1. Inputs[top.sig] \in Seq(Signals)
    BY <1>2, GraphAssumption
  <2> QED  BY <1>1, <1>2, <2>1, ElementOfSeq, LenProperties
<1>4. /\ next \in Frames /\ next.op = top.op /\ next.sig = top.sig
      /\ next.it = top.it + 1
  BY <1>1, <1>2, ThriftTop, FrameUpdates
<1> HIDE DEF next
<1>5. PICK f \in Frames : /\ f = [next EXCEPT !.at = "input"]
                          /\ f.op = "access" /\ f.sig = top.sig /\ f.at = "input"
                          /\ f.it = top.it + 1
  <2>1. "input" \in Places
    BY DEF Places
  <2>2. PICK f \in Frames : f = [next EXCEPT !.at = "input"]
    BY <1>4, <2>1, FrameUpdates
  <2>3. f.op = next.op /\ f.sig = next.sig /\ f.at = "input" /\ f.it = next.it
    BY <1>4, <2>1, <2>2, FrameFields
  <2> QED  BY <1>1, <1>4, <2>2, <2>3
<1>6. PICK c \in Frames : c = CallAccess(d) /\ ThriftFrame(c)' /\ ThriftTold(c)'
  BY ThriftNew
<1>7. ThriftFrame(f)'
  <2>1. f.it - 1 = top.it
    BY <1>2, <1>5
  <2>2. ReadSoFar(f) = ReadSoFar(top)
    BY <1>1, <1>5, <2>1 DEF ReadSoFar
  <2> QED  BY <1>1, <1>2, <1>5, <2>2 DEF ThriftFrame, RunPlaces, ReadSoFar
<1>8. GotoCall(f, c)
  BY <1>1, <1>3, <1>5, <1>6
<1> QED  BY <1>1, <1>6, <1>7, <1>8, ThriftAccessCalls

LEMMA ThriftGets ==
  ASSUME Watchful, Frugal, NEW Rank, Ranks(Rank), Thrifty(Rank), BodyGets
  PROVE  ThriftInv'
<1>1. /\ stack # <<>> /\ top.op = "access" /\ top.at = "input"
      /\ UNCHANGED <<stime, ready, lastAsk, copy, version, setting>>
      /\ Goto([top EXCEPT !.at = "body", !.acc = @ \cup value])
  BY DEF BodyGets, At, signalVars, setVars
<1>2. /\ top \in Frames /\ top.sig \in Signals /\ top.it \in Nat \ {0}
      /\ top.acc \in Values /\ value \in Values /\ ThriftFrame(top) /\ ThriftTold(top)
  BY <1>1, ThriftTop DEF TypeOK
<1>3. PICK v \in Values : v = top.acc \cup value
  BY <1>2, ValueTypes
<1>4. PICK f \in Frames : f = [top EXCEPT !.at = "body", !.acc = v]
  BY <1>2, FrameUpdates DEF Places
<1>5. f.op = "access" /\ f.sig = top.sig /\ f.at = "body" /\ f.it = top.it
  BY <1>1, <1>4, ThriftTop
<1>6. Goto(f)
  BY <1>1, <1>3, <1>4
<1>7. ~ready[Inputs[top.sig][top.it - 1]]
  BY <1>1, <1>2 DEF ThriftTold
<1>8. \A k \in ReadSoFar(f) : k \in ReadSoFar(top) \/ k = top.it - 1
  <2>1. DOMAIN Inputs[top.sig] = 1 .. Len(Inputs[top.sig]) /\ Len(Inputs[top.sig]) \in Nat
    BY <1>2, GraphAssumption, LenProperties
  <2> QED  BY <1>1, <1>2, <1>5, <2>1 DEF ReadSoFar
<1>9. (\A k \in ReadSoFar(f) : ~ready[Inputs[f.sig][k]])
      /\ (f.sig \in TimeDep => ~lastAsk[f.sig])
  BY <1>1, <1>2, <1>5, <1>7, <1>8 DEF ThriftFrame, RunPlaces
<1>10. ThriftFrame(f)' /\ ThriftTold(f)'
  BY <1>1, <1>5, <1>9 DEF ThriftFrame, ThriftTold, ReadSoFar
<1>11. top.at # "ran"
  BY <1>1
<1> QED  BY <1>1, <1>6, <1>10, <1>11, ThriftMoves

LEMMA ThriftReadConstant ==
  ASSUME Watchful, Frugal, NEW Rank, Ranks(Rank), Thrifty(Rank), ReadConstant
  PROVE  ThriftInv'
<1>1. /\ stack # <<>> /\ top.op = "access" /\ top.at = "copy"
      /\ UNCHANGED <<stime, ready, lastAsk, copy, version, setting>>
      /\ Goto([top EXCEPT !.at = "ran", !.acc = copy[top.sig]])
  BY DEF ReadConstant, At, signalVars, setVars
<1>2. /\ top \in Frames /\ top.sig \in Signals /\ ThriftFrame(top)
      /\ copy[top.sig] \in Values /\ Type[top.sig] = "CONSTANT"
  BY <1>1, ThriftTop DEF TypeOK, FrameOK, AccessFrame
<1>3. PICK v \in Values : v = copy[top.sig]
  BY <1>2
<1>4. PICK f \in Frames : f = [top EXCEPT !.at = "ran", !.acc = v]
  BY <1>2, FrameUpdates DEF Places
<1>5. f.op = "access" /\ f.sig = top.sig /\ f.at = "ran"
  BY <1>1, <1>4, ThriftTop
<1>6. Goto(f)
  BY <1>1, <1>3, <1>4
<1>7. ReadSoFar(f) = {} /\ (f.sig \in TimeDep => ~lastAsk[f.sig])
  <2>1. Inputs[f.sig] = <<>>
    BY <1>2, <1>5 DEF Watchful, Sources
  <2> QED  BY <1>1, <1>2, <1>5, <2>1 DEF ReadSoFar, ThriftFrame, RunPlaces
<1>8. ThriftFrame(f)' /\ ThriftTold(f)'
  BY <1>1, <1>5, <1>7 DEF ThriftFrame, ThriftTold, ReadSoFar
<1>9. top.at # "ran"
  BY <1>1
<1> QED  BY <1>1, <1>6, <1>8, <1>9, ThriftMoves

LEMMA ThriftConstant ==
  ASSUME Watchful, Frugal, NEW Rank, Ranks(Rank), Thrifty(Rank), RunConstant
  PROVE  ThriftInv'
<1>1. /\ stack # <<>> /\ top.op = "access" /\ top.at = "run" /\ Type[top.sig] = "CONSTANT"
      /\ UNCHANGED <<lastAsk, copy, version, setting>>
      /\ Goto([top EXCEPT !.at = "copy"])
      /\ ready' = [ready EXCEPT ![top.sig] = FALSE]
      /\ stime' = IF ready[top.sig] THEN [stime EXCEPT ![top.sig] = now] ELSE stime
  BY DEF RunConstant, At, setVars
<1>2. /\ top \in Frames /\ top.sig \in Signals /\ ThriftFrame(top) /\ ThriftStack /\ TypeOK
      /\ stime \in [Signals -> Nat] /\ ready \in [Signals -> BOOLEAN]
  BY <1>1, ThriftTop DEF TypeOK
<1>3. PICK c \in Signals : c = top.sig
  BY <1>2
<1>4. /\ c \in Sources /\ c \notin Cached /\ Below(c) = {c}
      /\ \A s \in Cached : s \in Signals \ {c}
      /\ \A s \in Signals : \A d \in Range(Inputs[s]) : d \in Signals
  BY <1>1, <1>3, FrugalGraph DEF Sources
<1>5. /\ ~ready'[c] /\ \A s \in Signals \ {c} : ready'[s] = ready[s] /\ stime'[s] = stime[s]
      /\ ~ready[c] => stime'[c] = stime[c]
  BY <1>1, <1>2, <1>3
<1>6. SeenInv /\ PassedInv /\ ReasonInv /\ FirstInv
  BY DEF Thrifty, ThriftInv
<1>7. \A s, x : Seen(s, x)' = Seen(s, x)
  BY <1>1 DEF Seen
<1>8. \A s \in Signals \ {c} : Reason(s)' = Reason(s)
  BY <1>5, <1>7 DEF Reason
<1>9. SeenInv'
  <2>1. \A x \in Sources : x \in Signals
    BY DEF Sources
  <2> QED  BY <1>1, <1>5, <1>6, <1>7, <2>1 DEF SeenInv
<1>10. PassedInv'
  BY <1>4, <1>5, <1>6, <1>7 DEF PassedInv
<1>11. ~lastAsk[c] \/ c \notin TimeDep
  BY <1>1, <1>2, <1>3 DEF ThriftFrame, RunPlaces
<1>12. ReasonInv'
  <2>1. ASSUME NEW s \in Cached, NEW d \in Range(Inputs[s]), stime'[d] > stime'[s]
        PROVE  Reason(s)'
    <3>1. s \in Signals \ {c} /\ d \in Signals
      BY <1>4
    <3>2. CASE d = c /\ ready[c]
      <4>1. c \in Below(s)
        BY <1>4, <3>1, <3>2, FrugalGraph
      <4>2. ~Seen(s, c)
        BY <1>4, <1>6, <3>2 DEF SeenInv
      <4> QED  BY <1>8, <3>1, <4>1, <4>2 DEF Reason
    <3>3. CASE ~(d = c /\ ready[c])
      <4>1. stime[d] > stime[s]
        BY <1>5, <2>1, <3>1, <3>3
      <4> QED  BY <1>6, <1>8, <3>1, <4>1 DEF ReasonInv
    <3> QED  BY <3>2, <3>3
  <2>2. ASSUME NEW s \in TimeDep, lastAsk'[s] PROVE Reason(s)'
    <3>1. s \in Signals \ {c} /\ lastAsk[s]
      BY <1>1, <1>11, <2>2, GraphAssumption
    <3> QED  BY <1>6, <1>8, <3>1 DEF ReasonInv
  <2> QED  BY <2>1, <2>2 DEF ReasonInv
<1>13. FirstInv'
  BY <1>1, <1>4, <1>5, <1>6 DEF FirstInv, At
<1>14. PICK f \in Frames : /\ f = [top EXCEPT !.at = "copy"]
                           /\ f.op = "access" /\ f.sig = c /\ f.at = "copy"
  <2>1. "copy" \in Places
    BY DEF Places
  <2> QED  BY <1>1, <1>2, <1>3, <2>1, MovedTop
<1>15. ThriftFrame(f)' /\ ThriftTold(f)'
  BY <1>1, <1>11, <1>14 DEF ThriftFrame, ThriftTold, ReadSoFar
<1>16. \A g \in Frames : Pending(g) /\ ThriftFrame(g) => ThriftFrame(g)'
  <2>1. \A s \in Signals : (ready'[s] => ready[s]) /\ (lastAsk'[s] => lastAsk[s])
    BY <1>1, <1>5
  <2> QED  BY <1>1, <2>1, ThriftWaits DEF Thrifty
<1>17. ThriftStack'
  BY <1>1, <1>2, <1>14, <1>15, <1>16, ThriftGoes
<1> QED  BY <1>9, <1>10, <1>12, <1>13, <1>17 DEF ThriftInv

LEMMA ThriftFunction ==
  ASSUME Watchful, Frugal, NEW Rank, Ranks(Rank), Thrifty(Rank), RunFunction
  PROVE  ThriftInv'
<1>1. /\ stack # <<>> /\ top.op = "access" /\ top.at = "run" /\ Type[top.sig] = "FUNCTION"
      /\ UNCHANGED <<ready, lastAsk, copy, version, setting>>
      /\ Goto([top EXCEPT !.at = "body"])
      /\ stime' = [stime EXCEPT ![top.sig] = now]
  BY DEF RunFunction, At, setVars
<1>2. /\ top \in Frames /\ top.sig \in Signals /\ ThriftFrame(top) /\ ThriftTold(top)
      /\ FrameOK(top) /\ ThriftStack /\ TypeOK /\ stime \in [Signals -> Nat]
  BY <1>1, ThriftTop DEF TypeOK
<1>3. PICK s0 \in Signals : s0 = top.sig
  BY <1>2
<1>4. s0 \in Cached /\ s0 \in TimeDep
  BY <1>1, <1>3 DEF Frugal, Cached
<1>5. Reason(s0)
  BY <1>1, <1>2, <1>3, <1>4 DEF ThriftTold
<1>6. stime'[s0] = now /\ \A s \in Signals \ {s0} : stime'[s] = stime[s]
  BY <1>1, <1>2, <1>3
<1>7. SeenInv /\ PassedInv /\ ReasonInv /\ FirstInv
  BY DEF Thrifty, ThriftInv
<1>8. (\A s, x : Seen(s, x)' = Seen(s, x)) /\ \A s : Reason(s)' = Reason(s)
  BY <1>1 DEF Seen, Reason
<1>9. SeenInv' /\ PassedInv' /\ FirstInv'
  BY <1>1, <1>7, <1>8 DEF SeenInv, PassedInv, FirstInv, At
<1>10. ReasonInv'
  <2>1. ASSUME NEW s \in Cached, NEW d \in Range(Inputs[s]), stime'[d] > stime'[s]
        PROVE  Reason(s)
    <3>1. s \in Signals /\ d \in Signals /\ d # s
      BY FrugalGraph
    <3>2. s # s0
      <4>1. now \in Nat /\ stime[d] \in Nat /\ stime[d] <= now
        BY <1>1, <3>1, Given DEF Thrifty
      <4> QED  BY <1>6, <2>1, <3>1, <4>1
    <3>3. CASE d = s0
      BY <1>5, <3>1, <3>3, ReasonUp
    <3>4. CASE d # s0
      BY <1>6, <1>7, <2>1, <3>1, <3>2, <3>4 DEF ReasonInv
    <3> QED  BY <3>3, <3>4
  <2> QED  BY <1>1, <1>7, <1>8, <2>1 DEF ReasonInv
<1>11. PICK f \in Frames : /\ f = [top EXCEPT !.at = "body"]
                           /\ f.op = "access" /\ f.sig = s0 /\ f.at = "body"
                           /\ f.it = top.it
  <2>1. "body" \in Places
    BY DEF Places
  <2> QED  BY <1>1, <1>2, <1>3, <2>1, MovedTop
<1>12. ReadSoFar(f) = {}
  <2>1. f.it = 1
    BY <1>1, <1>2, <1>11 DEF FrameOK, AccessFrame
  <2>2. DOMAIN Inputs[s0] = 1 .. Len(Inputs[s0])
    BY GraphAssumption, LenProperties
  <2> QED  BY <1>11, <2>1, <2>2 DEF ReadSoFar
<1>13. ~lastAsk[s0]
  BY <1>1, <1>2, <1>3, <1>4 DEF ThriftFrame, RunPlaces
<1>14. ThriftFrame(f)' /\ ThriftTold(f)'
  BY <1>1, <1>11, <1>12, <1>13 DEF ThriftFrame, ThriftTold, ReadSoFar
<1>15. \A g \in Frames : Pending(g) /\ ThriftFrame(g) => ThriftFrame(g)'
  <2>1. \A s \in Signals : (ready'[s] => ready[s]) /\ (lastAsk'[s] => lastAsk[s])
    BY <1>1
  <2> QED  BY <1>1, <2>1, ThriftWaits DEF Thrifty
<1>16. ThriftStack'
  BY <1>1, <1>2, <1>11, <1>14, <1>15, ThriftGoes
<1> QED  BY <1>9, <1>10, <1>16 DEF ThriftInv

LEMMA ThriftEnds ==
  ASSUME Watchful, Frugal, NEW Rank, Ranks(Rank), Thrifty(Rank), BodyEnds
  PROVE  ThriftInv'
<1>1. /\ stack # <<>> /\ top.op = "access" /\ top.at = "body"
      /\ top.it > Len(Inputs[top.sig])
      /\ UNCHANGED <<stime, ready, lastAsk, version, setting>>
      /\ Goto([top EXCEPT !.at = "ran"])
      /\ copy' = [copy EXCEPT ![top.sig] = top.acc]
  BY DEF BodyEnds, At, setVars, SetTcopy
<1>2. /\ top \in Frames /\ top.sig \in Signals /\ top.it \in Nat \ {0}
      /\ ThriftFrame(top) /\ FrameOK(top) /\ ThriftStack /\ TypeOK
      /\ copy \in [Signals -> Values] /\ version \in [Signals -> Nat]
  BY <1>1, ThriftTop DEF TypeOK
<1>3. PICK s0 \in Signals : s0 = top.sig
  BY <1>2
<1>4. /\ Type[s0] = "FUNCTION" /\ s0 \in Cached /\ s0 \in TimeDep
      /\ stime[s0] = now /\ Gathered(s0, top.it, top.acc)
  BY <1>1, <1>2, <1>3 DEF FrameOK, AccessFrame, Frugal, Cached
<1>5. top.acc = Current(s0) /\ \A d \in Range(Inputs[s0]) : UpToDate(d)
  BY <1>1, <1>2, <1>3, <1>4, GatheredAll
<1>6. copy'[s0] = Current(s0) /\ \A s \in Signals \ {s0} : copy'[s] = copy[s]
  BY <1>1, <1>2, <1>3, <1>5
<1>7. \A d \in Range(Inputs[s0]) : ~ready[d]
  <2>1. DOMAIN Inputs[s0] = 1 .. Len(Inputs[s0]) /\ Len(Inputs[s0]) \in Nat
    BY GraphAssumption, LenProperties
  <2>2. ReadSoFar(top) = DOMAIN Inputs[s0]
    BY <1>1, <1>2, <1>3, <2>1 DEF ReadSoFar
  <2> QED  BY <1>1, <1>2, <1>3, <2>2 DEF ThriftFrame, RunPlaces, Range
<1>8. SeenInv /\ PassedInv /\ ReasonInv /\ FirstInv
  BY DEF Thrifty, ThriftInv
<1>9. /\ \A s \in Signals \ {s0} : Reason(s)' = Reason(s) /\ \A x : Seen(s, x)' = Seen(s, x)
      /\ \A x : Seen(s0, x)' <=> x \in Below(s0)
  <2>1. \A s \in Signals \ {s0} : \A x : Seen(s, x)' = Seen(s, x)
    BY <1>1, <1>6 DEF Seen
  <2>2. \A x : <<x, version[x]>> \in Current(s0) <=> x \in Below(s0)
    BY DEF Current
  <2>3. \A x : Seen(s0, x)' <=> x \in Below(s0)
    BY <1>1, <1>6, <2>2 DEF Seen
  <2> QED  BY <1>1, <2>1, <2>3 DEF Reason
<1>10. \A d \in Signals : \A c \in Below(d) : UpToDate(d) => Seen(d, c)
  BY DEF UpToDate, Current, Seen
<1>11. /\ \A s \in Cached : s \in Signals
       /\ \A s \in Signals : \A d \in Range(Inputs[s]) : d \in Signals /\ d # s
       /\ \A c \in Sources : c \in Signals /\ c \notin Cached
       /\ \A d \in Signals : d \notin Cached => Below(d) = {d}
  BY FrugalGraph
<1>12. SeenInv'
  <2>1. ASSUME NEW s \in Signals, NEW c \in Signals, NEW v \in Nat, <<c, v>> \in copy'[s]
        PROVE  v <= version[c]
    <3>1. CASE s = s0
      <4>1. v = version[c]
        BY <1>6, <2>1, <3>1 DEF Current
      <4> QED  BY <4>1
    <3>2. CASE s # s0
      BY <1>6, <1>8, <2>1, <3>2 DEF SeenInv
    <3> QED  BY <3>1, <3>2
  <2>2. ASSUME NEW s \in Cached, NEW c \in Sources, ready[c] \/ setting = c, Seen(s, c)'
        PROVE  FALSE
    <3>1. s \in Signals /\ c \in Signals /\ ready[c]
      BY <1>1, <1>11, <2>2, Given DEF Thrifty
    <3>2. CASE s = s0
      <4>1. PICK d \in Range(Inputs[s0]) : c \in Below(d)
        BY <1>4, <1>9, <2>2, <3>2, BelowFunction
      <4>2. d \in Signals /\ ~ready[d] /\ UpToDate(d)
        BY <1>5, <1>7, <1>11
      <4>3. d \in Cached
        BY <1>11, <3>1, <4>1, <4>2
      <4> QED  BY <1>8, <1>10, <3>1, <4>1, <4>2, <4>3 DEF SeenInv
    <3>3. CASE s # s0
      BY <1>8, <1>9, <2>2, <3>1, <3>3 DEF SeenInv
    <3> QED  BY <3>2, <3>3
  <2> QED  BY <1>1, <2>1, <2>2 DEF SeenInv
<1>13. PassedInv'
  <2> SUFFICES ASSUME NEW s \in Cached, NEW d \in Range(Inputs[s])
               PROVE  /\ \A c \in Below(d) : Seen(s, c)' => Seen(d, c)'
                      /\ d \in Cached /\ ready[d] => ready[s]
    BY <1>1 DEF PassedInv
  <2>1. s \in Signals /\ d \in Signals /\ d # s
    BY <1>11
  <2>2. CASE s = s0
    BY <1>5, <1>8, <1>9, <1>10, <2>1, <2>2 DEF PassedInv
  <2>3. CASE d = s0
    BY <1>8, <1>9, <2>1, <2>3 DEF PassedInv
  <2>4. CASE s # s0 /\ d # s0
    BY <1>8, <1>9, <2>1, <2>4 DEF PassedInv
  <2> QED  BY <2>2, <2>3, <2>4
<1>14. ~lastAsk[s0]
  BY <1>1, <1>2, <1>3, <1>4 DEF ThriftFrame, RunPlaces
<1>15. ReasonInv'
  <2>1. ASSUME NEW s \in Cached, NEW d \in Range(Inputs[s]), stime[d] > stime[s]
        PROVE  Reason(s)'
    <3>1. s # s0
      <4>1. d \in Signals
        BY <1>11
      <4>2. now \in Nat /\ stime[d] \in Nat /\ stime[d] <= now
        BY <1>1, <4>1, Given DEF Thrifty
      <4> QED  BY <1>4, <2>1, <4>2
    <3> QED  BY <1>8, <1>9, <1>11, <2>1, <3>1 DEF ReasonInv
  <2>2. ASSUME NEW s \in TimeDep, lastAsk[s] PROVE Reason(s)'
    <3>1. s \in Signals \ {s0}
      BY <1>14, <2>2, GraphAssumption
    <3> QED  BY <1>8, <1>9, <2>2, <3>1 DEF ReasonInv
  <2> QED  BY <1>1, <2>1, <2>2 DEF ReasonInv
<1>16. PICK f \in Frames : /\ f = [top EXCEPT !.at = "ran"]
                           /\ f.op = "access" /\ f.sig = s0 /\ f.at = "ran"
  <2>1. "ran" \in Places
    BY DEF Places
  <2> QED  BY <1>1, <1>2, <1>3, <2>1, MovedTop
<1>17. Goto(f)
  BY <1>1, <1>16
<1>18. stack' # <<>> /\ top' = f
  <2>1. stack' # <<>> /\ stack'[1] = f
    BY <1>1, <1>2, <1>17, GotoFrames
  <2> QED  BY <2>1 DEF top
<1>19. FirstInv'
  BY <1>1, <1>6, <1>8, <1>11, <1>16, <1>18 DEF FirstInv, At
<1>20. ThriftFrame(f)' /\ ThriftTold(f)'
  <2>1. \A k \in DOMAIN Inputs[s0] : ~ready[Inputs[s0][k]]
    BY <1>7 DEF Range
  <2> QED  BY <1>1, <1>14, <1>16, <2>1 DEF ThriftFrame, ThriftTold, ReadSoFar
<1>21. \A g \in Frames : Pending(g) /\ ThriftFrame(g) => ThriftFrame(g)'
  <2>1. \A s \in Signals : (ready'[s] => ready[s]) /\ (lastAsk'[s] => lastAsk[s])
    BY <1>1
  <2> QED  BY <1>1, <2>1, ThriftWaits DEF Thrifty
<1>22. ThriftStack'
  BY <1>1, <1>2, <1>17, <1>20, <1>21, ThriftGoes
<1> QED  BY <1>12, <1>13, <1>15, <1>19, <1>22 DEF ThriftInv

LEMMA ThriftReturned ==
  ASSUME Watchful, Frugal, NEW Rank, Ranks(Rank), Thrifty(Rank), AccessReturns
  PROVE  ThriftInv'
<1>1. /\ stack # <<>> /\ top.op = "access" /\ top.at = "ran"
      /\ UNCHANGED <<stime, lastAsk, copy, version, setting>>
      /\ stack' = Tail(stack)
      /\ ready' = IF top.sig \in TimeDep THEN [ready EXCEPT ![top.sig] = FALSE] ELSE ready
  BY DEF AccessReturns, At, setVars, ReturnValue
<1>2. /\ top.sig \in Signals /\ ThriftFrame(top) /\ FrameOK(top)
      /\ ready \in [Signals -> BOOLEAN]
  BY <1>1, ThriftTop DEF TypeOK
<1>3. PICK s0 \in Signals : s0 = top.sig
  BY <1>2
<1>4. /\ Type[s0] = "CONSTANT" => ~ready[s0]
      /\ Type[s0] = "FUNCTION" => stime[s0] = now
      /\ s0 \in TimeDep => ~lastAsk[s0]
      /\ \A d \in Range(Inputs[s0]) : ~ready[d]
  <2>1. AccessFrame(top) /\ ReadSoFar(top) = DOMAIN Inputs[s0]
    BY <1>1, <1>2, <1>3 DEF FrameOK, ReadSoFar
  <2> QED  BY <1>1, <1>2, <1>3, <2>1 DEF AccessFrame, ThriftFrame, RunPlaces, Range
<1>5. /\ \A s \in Cached : s \in Signals /\ s \in TimeDep /\ Type[s] = "FUNCTION"
      /\ \A s \in Signals : \A d \in Range(Inputs[s]) : d \in Signals
      /\ \A c \in Sources : c \in Signals
  BY FrugalGraph
<1>6. ~ready'[s0] /\ \A s \in Signals \ {s0} : ready'[s] = ready[s]
  <2>1. s0 \notin TimeDep => Type[s0] = "CONSTANT"
    BY GraphAssumption DEF Frugal
  <2> QED  BY <1>1, <1>2, <1>3, <1>4, <2>1
<1>7. SeenInv /\ PassedInv /\ ReasonInv /\ FirstInv
  BY DEF Thrifty, ThriftInv
<1>8. /\ \A s, x : Seen(s, x)' = Seen(s, x)
      /\ \A s \in Signals \ {s0} : Reason(s)' = Reason(s)
      /\ \A s \in Signals : ready'[s] => ready[s]
  BY <1>1, <1>6 DEF Seen, Reason
<1>9. SeenInv'
  BY <1>1, <1>5, <1>7, <1>8 DEF SeenInv
<1>10. PassedInv'
  <2> SUFFICES ASSUME NEW s \in Cached, NEW d \in Range(Inputs[s])
               PROVE  d \in Cached /\ ready'[d] => ready'[s]
    BY <1>7, <1>8 DEF PassedInv
  <2>1. CASE s = s0
    BY <1>4, <1>5, <1>8, <2>1
  <2>2. CASE s # s0
    BY <1>5, <1>6, <1>7, <1>8, <2>2 DEF PassedInv
  <2> QED  BY <2>1, <2>2
<1>11. ReasonInv'
  <2>1. ASSUME NEW s \in Cached, NEW d \in Range(Inputs[s]), stime[d] > stime[s]
        PROVE  Reason(s)'
    <3>1. s # s0
      <4>1. d \in Signals
        BY <1>5
      <4>2. now \in Nat /\ stime[d] \in Nat /\ stime[d] <= now
        BY <1>1, <4>1, Given DEF Thrifty
      <4> QED  BY <1>4, <1>5, <2>1, <4>2
    <3> QED  BY <1>5, <1>7, <1>8, <2>1, <3>1 DEF ReasonInv
  <2>2. ASSUME NEW s \in TimeDep, lastAsk[s] PROVE Reason(s)'
    <3>1. s \in Signals \ {s0}
      BY <1>4, <2>2, GraphAssumption
    <3> QED  BY <1>7, <1>8, <2>2, <3>1 DEF ReasonInv
  <2> QED  BY <1>1, <2>1, <2>2 DEF ReasonInv
<1>12. FirstInv'
  <2>1. \A s \in Cached : ~(ready'[s] /\ copy'[s] # {})
    BY <1>1, <1>3, <1>5, <1>6, <1>7 DEF FirstInv
  <2> QED  BY <1>1, <1>7, <2>1 DEF FirstInv
<1>13. \A g \in Frames : Pending(g) /\ ThriftFrame(g) => ThriftFrame(g)'
  <2>1. \A s \in Signals : (ready'[s] => ready[s]) /\ (lastAsk'[s] => lastAsk[s])
    BY <1>1, <1>8
  <2> QED  BY <1>1, <2>1, ThriftWaits DEF Thrifty
<1>14. ThriftStack'
  BY <1>1, <1>3, <1>6, <1>13, ThriftGives
<1> QED  BY <1>9, <1>10, <1>11, <1>12, <1>14 DEF ThriftInv

\* Outside of calls: a new one, the next tick, ...
LEMMA ThriftBegins ==
  ASSUME ThriftInv, stack = <<>>,
         UNCHANGED <<stime, ready, lastAsk, copy, version, setting>>,
         \/ stack' = stack
         \/ \E c \in Frames : stack' = <<c>> /\ ThriftFrame(c)' /\ ThriftTold(c)'
  PROVE  ThriftInv'
<1>1. SeenInv /\ PassedInv /\ ReasonInv /\ FirstInv
  BY DEF ThriftInv
<1>2. SeenInv' /\ PassedInv' /\ ReasonInv'
  BY <1>1 DEF SeenInv, PassedInv, ReasonInv, Seen, Reason
<1>3. FirstInv'
  <2>1. \A s \in Cached : ~(ready[s] /\ copy[s] # {})
    BY <1>1 DEF FirstInv, At
  <2> QED  BY <1>1, <2>1 DEF FirstInv
<1>4. ThriftStack'
  <2>1. CASE stack' = stack
    <3>1. stack' = <<>> /\ DOMAIN stack' = {}
      BY <2>1
    <3> QED  BY <3>1 DEF ThriftStack
  <2>2. CASE \E c \in Frames : stack' = <<c>> /\ ThriftFrame(c)' /\ ThriftTold(c)'
    <3>1. PICK c \in Frames : stack' = <<c>> /\ ThriftFrame(c)' /\ ThriftTold(c)'
      BY <2>2
    <3>2. DOMAIN stack' = {1} /\ stack'[1] = c
      BY <3>1
    <3> QED  BY <3>1, <3>2 DEF ThriftStack
  <2> QED  BY <2>1, <2>2
<1> QED  BY <1>2, <1>3, <1>4 DEF ThriftInv

\* ... a source that has a new version, which no result has seen, ...
LEMMA ThriftSet ==
  ASSUME Watchful, Frugal, NEW Rank, Ranks(Rank), Thrifty(Rank),
         NEW c \in Sources, SetConstant(c)
  PROVE  ThriftInv'
<1>1. /\ stack = <<>> /\ stack' = stack
      /\ UNCHANGED <<stime, ready, lastAsk>>
      /\ version' = [version EXCEPT ![c] = version[c] + 1]
      /\ copy' = [copy EXCEPT ![c] = {<<c, version[c] + 1>>}]
      /\ setting' = c
  BY DEF SetConstant, MaySet, SetTcopy, callVars, Watchful
<1>2. /\ version \in [Signals -> Nat] /\ copy \in [Signals -> Values]
      /\ SourcesInv
  BY DEF Thrifty, Safe, TypeOK, FreshInv
<1>3. /\ \A s \in Cached : s \in Signals \ {c}
      /\ c \in Signals /\ Below(c) = {c} /\ \A x \in Sources : x \in Signals
      /\ \A s \in Signals : \A d \in Range(Inputs[s]) : d \in Signals
      /\ \A s \in Signals \ Cached : Type[s] = "CONSTANT" /\ Below(s) = {s}
      /\ \A s \in Signals : \A x \in Below(s) : x \in Signals
  BY FrugalGraph
<1>4. /\ version'[c] = version[c] + 1 /\ copy'[c] = {<<c, version[c] + 1>>}
      /\ \A s \in Signals \ {c} : version'[s] = version[s] /\ copy'[s] = copy[s]
      /\ \A s \in Signals : version[s] \in Nat
  BY <1>1, <1>2, <1>3
<1>5. SeenInv /\ PassedInv /\ ReasonInv /\ FirstInv
  BY DEF Thrifty, ThriftInv
<1>6. \A s \in Signals \ {c} : ~Seen(s, c)'
  <2>1. ASSUME NEW s \in Signals \ {c}, <<c, version[c] + 1>> \in copy[s] PROVE FALSE
    <3>1. version[c] + 1 \in Nat /\ ~(version[c] + 1 <= version[c])
      BY <1>3, <1>4
    <3> QED  BY <1>3, <1>5, <2>1, <3>1 DEF SeenInv
  <2> QED  BY <1>4, <2>1 DEF Seen
<1>7. \A s, x \in Signals : s # c /\ x # c => Seen(s, x)' = Seen(s, x)
  BY <1>4 DEF Seen
<1>8. SeenInv'
  <2>1. ASSUME NEW s \in Signals, NEW x \in Signals, NEW v \in Nat, <<x, v>> \in copy'[s]
        PROVE  v <= version'[x]
    <3>1. CASE s = c
      BY <1>4, <2>1, <3>1
    <3>2. CASE s # c
      <4>1. v <= version[x]
        BY <1>4, <1>5, <2>1, <3>2 DEF SeenInv
      <4> QED  BY <1>4, <4>1
    <3> QED  BY <3>1, <3>2
  <2>2. ASSUME NEW s \in Cached, NEW x \in Sources, ready'[x] \/ setting' = x
        PROVE  ~Seen(s, x)'
    BY <1>1, <1>3, <1>5, <1>6, <1>7, <2>2 DEF SeenInv
  <2> QED  BY <2>1, <2>2 DEF SeenInv
<1>9. PassedInv'
  <2> SUFFICES ASSUME NEW s \in Cached, NEW d \in Range(Inputs[s])
               PROVE  /\ \A x \in Below(d) : Seen(s, x)' => Seen(d, x)'
                      /\ d \in Cached /\ ready[d] => ready[s]
    BY <1>1 DEF PassedInv
  <2>1. s \in Signals \ {c} /\ d \in Signals
    BY <1>3
  <2>2. ASSUME NEW x \in Below(d), Seen(s, x)' PROVE Seen(d, x)'
    <3>1. x # c /\ x \in Signals
      BY <1>3, <1>6, <2>1, <2>2
    <3>2. d # c
      BY <1>3, <2>2, <3>1
    <3> QED  BY <1>5, <1>7, <2>1, <2>2, <3>1, <3>2 DEF PassedInv
  <2> QED  BY <1>5, <2>2 DEF PassedInv
<1>10. \A s \in Signals : Reason(s) => Reason(s)'
  <2> SUFFICES ASSUME NEW s \in Signals, ~ready[s], NEW x \in Below(s), ~Seen(s, x)
               PROVE  Reason(s)'
    BY <1>1 DEF Reason
  <2>1. s \in Cached
    BY <1>2, <1>3 DEF SourcesInv, Seen
  <2>2. ~Seen(s, x)'
    BY <1>3, <1>6, <1>7, <2>1
  <2> QED  BY <2>2 DEF Reason
<1>11. ReasonInv'
  <2>1. TimeDep \subseteq Signals
    BY GraphAssumption
  <2> QED  BY <1>1, <1>3, <1>5, <1>10, <2>1 DEF ReasonInv
<1>12. FirstInv'
  <2>1. \A s \in Cached : ~(ready[s] /\ copy[s] # {})
    BY <1>1, <1>5 DEF FirstInv, At
  <2> QED  BY <1>1, <1>3, <1>4, <2>1 DEF FirstInv
<1>13. ThriftStack'
  <2>1. stack' = <<>> /\ DOMAIN stack' = {}
    BY <1>1
  <2> QED  BY <2>1 DEF ThriftStack
<1> QED  BY <1>8, <1>9, <1>11, <1>12, <1>13 DEF ThriftInv

\* ... and says so.
LEMMA ThriftSetReady ==
  ASSUME Watchful, Frugal, NEW Rank, Ranks(Rank), Thrifty(Rank), SetConstantReady
  PROVE  ThriftInv'
<1>1. /\ setting # NoSignal /\ setting' = NoSignal /\ stack' = stack
      /\ UNCHANGED <<stime, lastAsk, copy, version>>
      /\ ready' = [ready EXCEPT ![setting] = TRUE]
  BY DEF SetConstantReady, callVars
<1>2. /\ SeenInv /\ PassedInv /\ ReasonInv /\ FirstInv
      /\ ready \in [Signals -> BOOLEAN] /\ ClockInv
  BY DEF Thrifty, ThriftInv, Safe, TypeOK, FreshInv
<1>3. stack = <<>>
  BY <1>1, <1>2 DEF ClockInv
<1>4. PICK c \in Sources : c = setting
  BY <1>1, <1>2 DEF FirstInv
<1>5. /\ c \in Signals /\ \A s \in Cached : s \in Signals \ {c}
      /\ \A x \in Sources : x \in Signals
  BY FrugalGraph
<1>6. \A s \in Signals : s # c => ready'[s] = ready[s]
  BY <1>1, <1>2, <1>4
<1>7. ready'[c]
  BY <1>1, <1>2, <1>4, <1>5
<1>8. \A s, x : Seen(s, x)' = Seen(s, x)
  BY <1>1 DEF Seen
<1>9. \A s \in Signals : Reason(s) => Reason(s)'
  BY <1>6, <1>7, <1>8 DEF Reason
<1>10. SeenInv'
  <2>1. ASSUME NEW s \in Cached, NEW x \in Sources, ready'[x] \/ setting' = x
        PROVE  ~Seen(s, x)
    <3>1. ready'[x] /\ x \in Signals
      BY <1>1, <1>5, <2>1, GraphAssumption
    <3>2. ready[x] \/ setting = x
      BY <1>4, <1>6, <3>1
    <3> QED  BY <1>2, <3>2 DEF SeenInv
  <2> QED  BY <1>1, <1>2, <1>8, <2>1 DEF SeenInv
<1>11. PassedInv'
  BY <1>2, <1>5, <1>6, <1>8 DEF PassedInv
<1>12. ReasonInv'
  <2>1. TimeDep \subseteq Signals
    BY GraphAssumption
  <2> QED  BY <1>1, <1>2, <1>5, <1>9, <2>1 DEF ReasonInv
<1>13. FirstInv'
  <2>1. \A s \in Cached : ~(ready'[s] /\ copy'[s] # {})
    BY <1>1, <1>2, <1>3, <1>5, <1>6 DEF FirstInv, At
  <2> QED  BY <1>1, <2>1 DEF FirstInv
<1>14. ThriftStack'
  <2>1. stack' = <<>> /\ DOMAIN stack' = {}
    BY <1>1, <1>3
  <2> QED  BY <2>1 DEF ThriftStack
<1> QED  BY <1>10, <1>11, <1>12, <1>13, <1>14 DEF ThriftInv

LEMMA ThriftInit ==
  ASSUME Watchful, Frugal, NEW Rank, Ranks(Rank), Init
  PROVE  ThriftInv
<1>1. /\ stack = <<>> /\ setting = NoSignal
      /\ \A s \in Signals : /\ ready[s] /\ version[s] = 0
                            /\ copy[s] = IF Type[s] = "CONSTANT" THEN {<<s, 0>>} ELSE {}
  BY DEF Init
<1>2. /\ \A s \in Cached : s \in Signals /\ Type[s] = "FUNCTION"
      /\ \A x \in Sources : x \in Signals
  BY FrugalGraph
<1>3. \A s \in Cached : ready[s] /\ copy[s] = {}
  BY <1>1, <1>2
<1>4. SeenInv
  <2>1. ASSUME NEW s \in Signals, NEW c \in Signals, NEW v \in Nat, <<c, v>> \in copy[s]
        PROVE  v <= version[c]
    <3>1. <<c, v>> = <<s, 0>>
      BY <1>1, <2>1
    <3>2. v = 0 /\ version[c] = 0
      BY <1>1, <3>1
    <3> QED  BY <3>2
  <2> QED  BY <1>3, <2>1 DEF SeenInv, Seen
<1>5. PassedInv
  BY <1>3 DEF PassedInv, Seen
<1>6. ReasonInv
  BY <1>1, <1>3, GraphAssumption DEF ReasonInv, Reason
<1>7. FirstInv
  BY <1>1, <1>3 DEF FirstInv
<1>8. ThriftStack
  <2>1. DOMAIN stack = {}
    BY <1>1
  <2> QED  BY <1>1, <2>1 DEF ThriftStack
<1> QED  BY <1>4, <1>5, <1>6, <1>7, <1>8 DEF ThriftInv

\* A step that changes nothing keeps it.
LEMMA ThriftStutter ==
  ASSUME ThriftInv, UNCHANGED vars
  PROVE  ThriftInv'
<1>1. UNCHANGED <<stime, ready, lastAsk, deps, copy, stack, answer, version, setting>>
  BY DEF vars, signalVars, callVars, setVars
<1>2. \A s : Reason(s)' = Reason(s) /\ \A x : Seen(s, x)' = Seen(s, x)
  BY <1>1 DEF Reason, Seen
<1>3. SeenInv' /\ PassedInv' /\ ReasonInv'
  BY <1>1, <1>2 DEF ThriftInv, SeenInv, PassedInv, ReasonInv
<1>4. FirstInv'
  BY <1>1 DEF ThriftInv, FirstInv, At, top
<1>5. \A g : ThriftFrame(g)' = ThriftFrame(g)
  BY <1>1 DEF ThriftFrame, ReadSoFar
<1>6. \A g : ThriftTold(g)' = ThriftTold(g)
  BY <1>1, <1>2 DEF ThriftTold
<1>7. ThriftStack'
  BY <1>1, <1>5, <1>6 DEF ThriftInv, ThriftStack
<1> QED  BY <1>3, <1>4, <1>7 DEF ThriftInv

LEMMA ThriftStep ==
  ASSUME Watchful, Frugal, NEW Rank, Ranks(Rank), Thrifty(Rank), [Next]_vars
  PROVE  ThriftInv'
<1>1. CASE Evaluate
  <2>1. ~BodyThrows
    BY DEF BodyThrows, Watchful
  <2>2. ~RunReference
    <3>1. ASSUME RunReference PROVE FALSE
      <4>1. stack # <<>> /\ Type[top.sig] = "REFERENCE"
        BY <3>1 DEF RunReference, At
      <4>2. top.sig \in Signals
        BY <4>1, ThriftTop
      <4> QED  BY <4>1, <4>2 DEF Frugal
    <3> QED  BY <3>1
  <2> QED  BY <1>1, <2>1, <2>2, ThriftEnter, ThriftDependency, ThriftAsked,
              ThriftLoopEnds, ThriftAsk, ThriftUpdate, ThriftCached, ThriftConstant,
              ThriftReadConstant, ThriftFunction, ThriftReads, ThriftGets, ThriftEnds,
              ThriftReturned DEF Evaluate
<1>2. ASSUME NEW s \in Roots, Access(s) \/ AskNeedUpdate(s) PROVE ThriftInv'
  <2>1. s \in Signals
    BY OptionAssumption
  <2>2. PICK c \in Frames : CallFromLoop(c) /\ ThriftFrame(c)' /\ ThriftTold(c)'
    BY <1>2, <2>1, ThriftNew DEF Access, AskNeedUpdate
  <2>3. /\ stack = <<>> /\ stack' = <<c>>
        /\ UNCHANGED <<stime, ready, lastAsk, copy, version, setting>>
    BY <2>2 DEF CallFromLoop, signalVars, setVars
  <2> QED  BY <2>2, <2>3, ThriftBegins DEF Thrifty
<1>3. ~\E s \in Forced : SetReady(s)
  BY DEF Frugal
<1>4. CASE Tick
  <2>1. /\ stack = <<>> /\ stack' = stack
        /\ UNCHANGED <<stime, ready, lastAsk, copy, version, setting>>
    BY <1>4 DEF Tick, signalVars, callVars, setVars
  <2> QED  BY <2>1, ThriftBegins DEF Thrifty
<1>5. ASSUME NEW c \in Sources, SetConstant(c) \/ WriteReferenced(c) PROVE ThriftInv'
  <2>1. ~WriteReferenced(c)
    BY DEF WriteReferenced, Frugal, Sources
  <2> QED  BY <1>5, <2>1, ThriftSet
<1>6. CASE SetConstantReady
  BY <1>6, ThriftSetReady
<1>7. CASE UNCHANGED vars
  BY <1>7, ThriftStutter DEF Thrifty
<1> QED  BY <1>1, <1>2, <1>3, <1>4, <1>5, <1>6, <1>7 DEF Next

\* A function that has run runs again only for a version that its result was not made from.
LEMMA ThriftReason ==
  ASSUME Watchful, Frugal, NEW Rank, Ranks(Rank), Thrifty(Rank), RunFunction,
         copy[top.sig] # {}
  PROVE  \E c \in Below(top.sig) : <<c, version[c]>> \notin copy[top.sig]
<1>1. /\ stack # <<>> /\ top.op = "access" /\ top.at = "run" /\ Type[top.sig] = "FUNCTION"
  BY DEF RunFunction, At
<1>2. top.sig \in Signals /\ ThriftTold(top)
  BY <1>1, ThriftTop
<1>3. top.sig \in Cached
  BY <1>1, <1>2 DEF Frugal, Cached
<1>4. Reason(top.sig)
  BY <1>1, <1>2, <1>3 DEF ThriftTold
<1>5. ~ready[top.sig]
  BY <1>1, <1>3 DEF Thrifty, ThriftInv, FirstInv, At
<1> QED  BY <1>4, <1>5 DEF Reason, Seen

\* package.h: no entity recomputes "if no new information is available".  On an acyclic
\* graph in which new values are noticed, and nothing but new values is a reason, a function
\* runs a second time only if a source below it has a version its result was not made from.
THEOREM NeverNeedless ==
  ASSUME Watchful, Frugal, NEW Rank, Ranks(Rank)
  PROVE  Spec => NoNeedlessRun
<1> DEFINE Needed == RunFunction /\ copy[top.sig] # {} /\ top.sig \notin Forced
                       => \E c \in Below(top.sig) : <<c, version[c]>> \notin copy[top.sig]
<1>1. Init => FreshInv /\ Descends(Rank, stack) /\ Ordered(Rank, stack) /\ ThriftInv
  <2>1. Init => Ordered(Rank, stack)
    BY DEF Init, Ordered
  <2> QED  BY <2>1, FreshInit, ThriftInit
<1>2. /\ TypeOK /\ FreshInv /\ Descends(Rank, stack) /\ Ordered(Rank, stack) /\ ThriftInv
      /\ [Next]_vars
      => FreshInv' /\ Descends(Rank, stack)' /\ Ordered(Rank, stack)' /\ ThriftInv'
  BY FreshStep, OrderStep, ThriftStep DEF Thrifty, Safe, Kept, Ranks
<1>3. TypeOK /\ FreshInv /\ Descends(Rank, stack) /\ Ordered(Rank, stack) /\ ThriftInv
      => Needed
  BY ThriftReason DEF Thrifty, Safe
<1> HIDE DEF Needed
<1>4. Spec => [][Needed]_vars
  BY <1>1, <1>2, <1>3, TypeCorrect, PTL DEF Spec
<1> QED  BY <1>4 DEF NoNeedlessRun, Needed

----------------------------------------------------------------------------
(* All inputs are new.                                                     *)

\* The functions that wait for every input, and that nobody calls setReady() on.
Patient == {s \in AllChildren \ Forced : Type[s] = "FUNCTION"}

\* The graphs in which they get what updateFromAllChildren promises: they read constants
\* without notion of time, which they depend on, and no value is set while they do.
PlainChildren ==
  /\ SetWhen # "anytime"
  /\ \A s \in Patient :
       /\ Kind[s] # "ALWAYS_READY" /\ s \notin ByCopy
       /\ Range(Inputs[s]) \subseteq Range(DepArgs[s])
       /\ \A c \in Range(Inputs[s]) : Type[c] = "CONSTANT" /\ c \notin TimeDep \cup Forced

AllNew(s) == \A c \in Range(Inputs[s]) : ~Seen(s, c)

ConstantsInv ==
  /\ \A c \in Signals : Type[c] = "CONSTANT" => copy[c] = {<<c, version[c]>>}
  /\ deps = [s \in Signals |-> Reverse(DepArgs[s])]
  /\ \A s \in Signals : stime[s] <= now
  /\ SetWhen # "anytime" /\ setting # NoSignal => stack = <<>> /\ Type[setting] = "CONSTANT"

\* Whatever says yes to a patient function, a flag or a time of an input, or its own sticky
\* flag, has a version that its result has not seen.
NewsInv ==
  \A s \in Patient :
    /\ \A c \in Range(Inputs[s]) :
         /\ \A v \in Nat : <<c, v>> \in copy[s] => v <= version[c]
         /\ ready[c] \/ setting = c \/ stime[c] > stime[s] => ~Seen(s, c)
    /\ lastAsk[s] => AllNew(s)
    /\ ready[s] /\ copy[s] # {} => At("access", "ran") /\ top.sig = s

\* p is a version of an input that s was the first to be told of.
Taken(s, p) == \E c \in Range(Inputs[s]) : p = <<c, version[c]>> /\ ~ready[c]

\* Which calls can be at which place.
PlaceOf(f) ==
  /\ f.op = "need" /\ f.at \in {"loop", "asked"} => f.sig \in TimeDep
  /\ f.op = "access" /\ f.at \in {"ask", "asked"} => f.sig \in TimeDep
  /\ f.op = "access" /\ f.at \in {"body", "input"} => Type[f.sig] = "FUNCTION"
  /\ f.op = "access" /\ f.at = "copy" => Type[f.sig] = "CONSTANT"
  /\ f.op = "need" /\ f.at = "enter" => f.it = 1
  /\ f.op = "access" /\ f.at \in {"ask", "asked", "run"} => f.acc = {}

\* What a call of a patient function has found out, and an access() of a constant.
PatientNeed(f) ==
  f.op = "need" /\ f.sig \in Patient /\ f.at \in {"loop", "asked"} =>
    \A k \in DOMAIN deps[f.sig] :
      k < f.it /\ deps[f.sig][k] \in Range(Inputs[f.sig]) => ~Seen(f.sig, deps[f.sig][k])
PatientAccess(f) ==
  f.op = "access" /\ f.sig \in Patient =>
    /\ f.at = "run" => AllNew(f.sig)
    /\ f.at \in {"run", "body", "input"} => ~lastAsk[f.sig]
    /\ f.at \in {"body", "input"} =>
         stime[f.sig] = now /\ \A p \in f.acc : Taken(f.sig, p)
ConstantAccess(f) ==
  f.op = "access" /\ Type[f.sig] = "CONSTANT" =>
    /\ f.at \in {"copy", "ran"} => ~ready[f.sig]
    /\ f.at = "ran" => f.acc = {<<f.sig, version[f.sig]>>}
PatientFrame(f) == PlaceOf(f) /\ PatientNeed(f) /\ PatientAccess(f) /\ ConstantAccess(f)

\* What the running function has been told.
PatientTold(f) ==
  f.sig \in Patient =>
    /\ f.op = "need" /\ f.at = "asked" /\ answer /\ deps[f.sig][f.it] \in Range(Inputs[f.sig]) =>
         ~Seen(f.sig, deps[f.sig][f.it])
    /\ f.op = "access" /\ f.at = "asked" /\ answer => AllNew(f.sig)
    /\ f.op = "access" /\ f.at = "input" => \A p \in value : Taken(f.sig, p)

PatientStack ==
  /\ Callers(stack)
  /\ \A i \in DOMAIN stack : PatientFrame(stack[i])
  /\ stack # <<>> => PatientTold(stack[1])

PatientInv == ConstantsInv /\ NewsInv /\ PatientStack

----------------------------------------------------------------------------
(* The stack.                                                              *)

\* What waiting calls know stays true.
PatientStays == \A g \in Frames : Pending(g) /\ PatientFrame(g) => PatientFrame(g)'

LEMMA PatientGoes ==
  ASSUME TypeOK, PatientStack, stack # <<>>, deps' = deps,
         NEW f \in Frames, f.op = top.op, f.sig = top.sig, Goto(f),
         PatientFrame(f)', PatientTold(f)', PatientStays
  PROVE  PatientStack'
<1>1. /\ stack' # <<>> /\ DOMAIN stack' = DOMAIN stack /\ stack'[1] = f
      /\ \A i \in DOMAIN stack : i # 1 => stack'[i] = stack[i]
  BY GotoFrames
<1>2. /\ top = stack[1] /\ \A i \in DOMAIN stack : stack[i] \in Frames
      /\ DOMAIN stack = 1 .. Len(stack) /\ Len(stack) \in Nat
  BY StackShape
<1>3. ASSUME NEW i \in DOMAIN stack PROVE PatientFrame(stack[i])'
  <2>1. CASE i = 1
    BY <1>1, <2>1
  <2>2. CASE i # 1
    <3>1. Pending(stack[i]) /\ PatientFrame(stack[i]) /\ stack[i] \in Frames
      BY <1>2, <2>2 DEF Pending, PatientStack
    <3> QED  BY <1>1, <2>2, <3>1 DEF PatientStays
  <2> QED  BY <2>1, <2>2
<1>4. Callers(stack)'
  BY CallersGoes DEF PatientStack
<1>5. PatientTold(stack[1])'
  BY <1>1
<1> QED  BY <1>1, <1>3, <1>4, <1>5 DEF PatientStack

LEMMA PatientCalls ==
  ASSUME TypeOK, PatientStack, stack # <<>>, deps' = deps,
         NEW f \in Frames, NEW c \in Frames,
         f.op = top.op, f.sig = top.sig, GotoCall(f, c),
         PatientFrame(f)', PatientFrame(c)', Calls(f, c), c.at \notin {"asked", "input"},
         PatientStays
  PROVE  PatientStack'
<1>1. /\ stack' # <<>> /\ DOMAIN stack' = 1 .. Len(stack) + 1
      /\ stack'[1] = c /\ stack'[2] = f
      /\ \A i \in DOMAIN stack : i # 1 => stack'[i + 1] = stack[i]
  BY CallFrames
<1>2. /\ top = stack[1] /\ \A i \in DOMAIN stack : stack[i] \in Frames
      /\ DOMAIN stack = 1 .. Len(stack) /\ Len(stack) \in Nat
  BY StackShape
<1>3. ASSUME NEW j \in DOMAIN stack'
      PROVE  j = 1 \/ j = 2 \/ \E i \in DOMAIN stack : i # 1 /\ j = i + 1
  <2>1. j = 1 \/ j = 2 \/ (j - 1 \in DOMAIN stack /\ j - 1 # 1 /\ j = (j - 1) + 1)
    BY <1>1, <1>2
  <2> QED  BY <2>1
<1>4. ASSUME NEW i \in DOMAIN stack, i # 1 PROVE PatientFrame(stack[i + 1])'
  <2>1. Pending(stack[i]) /\ PatientFrame(stack[i]) /\ stack[i] \in Frames
    BY <1>2, <1>4 DEF Pending, PatientStack
  <2>2. stack'[i + 1] = stack[i]
    BY <1>1, <1>4
  <2> QED  BY <2>1, <2>2 DEF PatientStays
<1>5. ASSUME NEW j \in DOMAIN stack' PROVE PatientFrame(stack[j])'
  <2>1. PatientFrame(stack[1])' /\ PatientFrame(stack[2])'
    BY <1>1
  <2> QED  BY <1>3, <1>4, <2>1
<1>6. Callers(stack)'
  BY CallersCalls DEF PatientStack
<1>7. PatientTold(c)'
  BY DEF PatientTold
<1> QED  BY <1>1, <1>5, <1>6, <1>7 DEF PatientStack

LEMMA PatientReturns ==
  ASSUME TypeOK, PatientStack, stack # <<>>, deps' = deps, stack' = Tail(stack),
         PatientStays,
         \A g \in Frames :
           ~outermost /\ Pending(g) /\ PatientFrame(g) /\ Calls(g, top) => PatientTold(g)'
  PROVE  PatientStack'
<1>1. /\ DOMAIN stack' = 1 .. Len(stack) - 1
      /\ \A i \in DOMAIN stack' : i + 1 \in DOMAIN stack /\ stack'[i] = stack[i + 1]
      /\ outermost <=> stack' = <<>>
      /\ stack' # <<>> => 1 \in DOMAIN stack' /\ 2 \in DOMAIN stack
  BY ReturnFrames
<1>2. /\ top = stack[1] /\ \A i \in DOMAIN stack : stack[i] \in Frames
      /\ DOMAIN stack = 1 .. Len(stack) /\ Len(stack) \in Nat
  BY StackShape
<1>3. ASSUME NEW i \in DOMAIN stack' PROVE PatientFrame(stack[i])'
  <2>1. i + 1 \in DOMAIN stack /\ i + 1 # 1 /\ stack'[i] = stack[i + 1]
    BY <1>1
  <2>2. Pending(stack[i + 1]) /\ PatientFrame(stack[i + 1]) /\ stack[i + 1] \in Frames
    BY <1>2, <2>1 DEF Pending, PatientStack
  <2> QED  BY <2>1, <2>2 DEF PatientStays
<1>4. Callers(stack)'
  BY CallersReturns DEF PatientStack
<1>5. ASSUME stack' # <<>> PROVE PatientTold(stack[1])'
  <2>1. 2 \in DOMAIN stack /\ 2 # 1 /\ stack'[1] = stack[2] /\ 2 - 1 = 1
    BY <1>1, <1>5
  <2>2. /\ Pending(stack[2]) /\ PatientFrame(stack[2]) /\ stack[2] \in Frames
        /\ Calls(stack[2], stack[1])
    BY <1>2, <2>1 DEF Pending, PatientStack, Callers
  <2> QED  BY <1>1, <1>2, <1>5, <2>1, <2>2
<1> QED  BY <1>3, <1>4, <1>5 DEF PatientStack

LEMMA PatientBegins ==
  ASSUME NEW c \in Frames, stack' = <<c>>, PatientFrame(c)', c.at \notin {"asked", "input"}
  PROVE  PatientStack'
<1>1. DOMAIN stack' = {1} /\ stack'[1] = c
  OBVIOUS
<1>2. PatientTold(c)'
  BY DEF PatientTold
<1> QED  BY <1>1, <1>2 DEF PatientStack, Callers

----------------------------------------------------------------------------
(* What is known when a call runs.                                         *)

\* All that the steps need.
Attentive == TypeOK /\ PaceInv /\ PatientInv

LEMMA PatientTop ==
  ASSUME Attentive, stack # <<>>
  PROVE  /\ TypeOK /\ PatientStack /\ ConstantsInv /\ NewsInv
         /\ top = stack[1] /\ top \in Frames /\ top.sig \in Signals
         /\ top.it \in Nat \ {0} /\ top.acc \in Values
         /\ PatientFrame(top) /\ PatientTold(top)
         /\ top = [op |-> top.op, sig |-> top.sig, at |-> top.at, it |-> top.it,
                   acc |-> top.acc]
<1>1. TypeOK /\ PaceInv /\ PatientStack /\ ConstantsInv /\ NewsInv
  BY DEF Attentive, PatientInv
<1>2. top = stack[1] /\ 1 \in DOMAIN stack
  BY <1>1, StackShape
<1> QED  BY <1>1, <1>2, PaceTop, FrameUpdates DEF PatientStack

\* Nothing is set while a call is in progress.
LEMMA PatientAlone ==
  ASSUME PlainChildren, Attentive, stack # <<>>
  PROVE  setting = NoSignal
BY PatientTop DEF ConstantsInv, PlainChildren

\* The inputs of a patient function.
LEMMA PatientInputs ==
  ASSUME PlainChildren, Attentive, NEW s \in Patient
  PROVE  /\ s \in Signals /\ s \in TimeDep /\ s \in AllChildren /\ Type[s] = "FUNCTION"
         /\ Inputs[s] \in Seq(Signals)
         /\ \A k \in DOMAIN Inputs[s] : Inputs[s][k] \in Range(Inputs[s])
         /\ \A c \in Range(Inputs[s]) :
              /\ c \in Signals /\ Type[c] = "CONSTANT" /\ c \notin TimeDep /\ c \notin Forced
              /\ c # s
              /\ \E k \in DOMAIN deps[s] : deps[s][k] = c
         /\ DOMAIN deps[s] = 1 .. Len(deps[s]) /\ Len(deps[s]) \in Nat
         /\ \A k \in DOMAIN deps[s] : deps[s][k] \in Signals
<1>1. s \in Signals /\ s \in TimeDep /\ s \in AllChildren /\ Type[s] = "FUNCTION"
  BY GraphAssumption DEF Patient
<1>2. deps = [z \in Signals |-> Reverse(DepArgs[z])]
  BY DEF Attentive, PatientInv, ConstantsInv
<1>3. /\ Inputs[s] \in Seq(Signals)
      /\ \A k \in DOMAIN Inputs[s] : Inputs[s][k] \in Range(Inputs[s])
      /\ \A c \in Range(Inputs[s]) : c \in Signals
      /\ DOMAIN deps[s] = 1 .. Len(deps[s]) /\ Len(deps[s]) \in Nat
      /\ \A k \in DOMAIN deps[s] : deps[s][k] \in Signals
      /\ \A c \in Range(DepArgs[s]) : \E k \in DOMAIN deps[s] : deps[s][k] = c
  BY <1>1, <1>2, ListsOf
<1>4. \A c \in Range(Inputs[s]) :
        Type[c] = "CONSTANT" /\ c \notin TimeDep \cup Forced /\ c \in Range(DepArgs[s])
  BY DEF PlainChildren
<1>5. \A c \in Range(Inputs[s]) : c # s
  BY <1>1, <1>4
<1> QED  BY <1>1, <1>3, <1>4, <1>5

\* The calls that wait: below an access() there are only others that read an input, and
\* below a needUpdate() none that reads an input of a patient function, for that is a
\* constant, whose access() asks nobody.
LEMMA PatientWaits ==
  ASSUME PlainChildren, Attentive, stack # <<>>, NEW g \in Frames, Pending(g)
  PROVE  /\ g.at \in {"asked", "input"}
         /\ top.op = "access" => g.op = "access" /\ g.at = "input"
         /\ top.op = "need" => ~(g.op = "access" /\ g.at = "input" /\ g.sig \in Patient)
<1>1. /\ Nested(stack) /\ Callers(stack) /\ top = stack[1]
      /\ \A i \in DOMAIN stack : PatientFrame(stack[i])
  BY PatientTop DEF Attentive, PaceInv, PaceStack, PatientStack
<1>2. DOMAIN stack = 1 .. Len(stack) /\ Len(stack) \in Nat \ {0} /\ 1 \in DOMAIN stack
  BY StackShape DEF Attentive
<1>3. PICK i \in DOMAIN stack : i # 1 /\ stack[i] = g
  BY DEF Pending
<1>4. 1 < i /\ i - 1 \in DOMAIN stack /\ (i - 1 = 1 \/ 1 < i - 1)
  BY <1>2, <1>3
<1>5. g.at \in {"asked", "input"}
  BY <1>1, <1>2, <1>3, <1>4 DEF Nested
<1>6. top.op = "access" => g.op = "access" /\ g.at = "input"
  BY <1>1, <1>2, <1>3, <1>4 DEF Nested
<1>7. ASSUME top.op = "need", g.op = "access", g.at = "input", g.sig \in Patient
      PROVE  FALSE
  <2> DEFINE h == stack[i - 1]
  <2>1. Calls(g, h)
    BY <1>1, <1>3 DEF Callers
  <2>2. h.op = "access" /\ g.it - 1 \in DOMAIN Inputs[g.sig] /\ h.sig = Inputs[g.sig][g.it - 1]
    BY <1>7, <2>1 DEF Calls
  <2>3. Type[h.sig] = "CONSTANT" /\ h.sig \notin TimeDep
    BY <1>7, <2>2, PatientInputs
  <2>4. 1 < i - 1
    BY <1>1, <1>4, <1>7, <2>2
  <2>5. h.at \in {"asked", "input"}
    BY <1>1, <1>2, <1>4, <2>4 DEF Nested
  <2>6. PlaceOf(h)
    BY <1>1, <1>4 DEF PatientFrame
  <2> QED  BY <2>2, <2>3, <2>5, <2>6 DEF PlaceOf
<1> QED  BY <1>5, <1>6, <1>7

\* What they know stays true while a needUpdate() goes on, ...
LEMMA PatientStaysNeed ==
  ASSUME PlainChildren, Attentive, stack # <<>>, top.op = "need",
         UNCHANGED <<stime, ready, copy, deps, version, now>>
  PROVE  PatientStays
<1> SUFFICES ASSUME NEW g \in Frames, Pending(g), PatientFrame(g) PROVE PatientFrame(g)'
  BY DEF PatientStays
<1>1. /\ g.at \in {"asked", "input"}
      /\ ~(g.op = "access" /\ g.at = "input" /\ g.sig \in Patient)
  BY PatientWaits
<1>2. PlaceOf(g)'
  BY DEF PatientFrame, PlaceOf
<1>3. PatientNeed(g)'
  BY DEF PatientFrame, PatientNeed, Seen
<1>4. PatientAccess(g)' /\ ConstantAccess(g)'
  BY <1>1 DEF PatientAccess, ConstantAccess
<1> QED  BY <1>2, <1>3, <1>4 DEF PatientFrame

\* ... or an access(), which may only clear flags and bring times up to the tick.
LEMMA PatientStaysAccess ==
  ASSUME PlainChildren, Attentive, stack # <<>>, top.op = "access",
         UNCHANGED <<deps, version, now>>,
         \A s \in Signals : /\ ready'[s] => ready[s]
                            /\ lastAsk'[s] => lastAsk[s]
                            /\ stime'[s] \in {stime[s], now}
  PROVE  PatientStays
<1> SUFFICES ASSUME NEW g \in Frames, Pending(g), PatientFrame(g) PROVE PatientFrame(g)'
  BY DEF PatientStays
<1>1. g.op = "access" /\ g.at = "input"
  BY PatientWaits
<1>2. PlaceOf(g)'
  BY DEF PatientFrame, PlaceOf
<1>3. PatientNeed(g)' /\ ConstantAccess(g)'
  BY <1>1 DEF PatientNeed, ConstantAccess
<1>4. ASSUME g.sig \in Patient PROVE PatientAccess(g)'
  <2>1. ~lastAsk[g.sig] /\ stime[g.sig] = now /\ \A p \in g.acc : Taken(g.sig, p)
    BY <1>1, <1>4 DEF PatientFrame, PatientAccess
  <2>2. g.sig \in Signals /\ \A c \in Range(Inputs[g.sig]) : c \in Signals
    BY <1>4, PatientInputs
  <2>3. \A p \in g.acc : Taken(g.sig, p)'
    BY <2>1, <2>2 DEF Taken
  <2> QED  BY <1>1, <2>1, <2>2, <2>3 DEF PatientAccess
<1>5. g.sig \notin Patient => PatientAccess(g)'
  BY DEF PatientAccess
<1> QED  BY <1>2, <1>3, <1>4, <1>5 DEF PatientFrame

\* A step that tells nobody anything new keeps the news there is.
LEMMA PatientResults ==
  ASSUME PlainChildren, Attentive, stack # <<>>,
         UNCHANGED <<deps, version, setting, now>>,
         \A s \in Signals : ready'[s] => ready[s],
         \A s \in Signals : \/ stime'[s] = stime[s]
                            \/ stime'[s] = now /\ (Type[s] = "CONSTANT" => ready[s]),
         \A s \in Signals : \/ copy'[s] = copy[s]
                            \/ s \notin Patient /\ Type[s] # "CONSTANT",
         \A s \in Patient : lastAsk'[s] => lastAsk[s] \/ AllNew(s),
         At("access", "ran") /\ top.sig \in Patient => ~ready'[top.sig]
  PROVE  ConstantsInv' /\ NewsInv'
<1>1. ConstantsInv /\ NewsInv /\ setting = NoSignal
  BY PatientTop, PatientAlone
<1>2. ConstantsInv'
  <2>1. ASSUME NEW s \in Signals PROVE stime'[s] <= now'
    <3>1. now \in Nat /\ stime[s] <= now /\ now' = now
      BY <1>1 DEF ConstantsInv, Attentive, TypeOK
    <3>2. stime'[s] = stime[s] \/ stime'[s] = now
      OBVIOUS
    <3> QED  BY <3>1, <3>2
  <2>2. \A c \in Signals : Type[c] = "CONSTANT" => copy'[c] = {<<c, version'[c]>>}
    BY <1>1 DEF ConstantsInv
  <2> QED  BY <1>1, <2>1, <2>2 DEF ConstantsInv
<1>3. ASSUME NEW s \in Patient
      PROVE  /\ copy'[s] = copy[s] /\ s \in Signals
             /\ \A c \in Range(Inputs[s]) : c \in Signals /\ Type[c] = "CONSTANT"
  <2>1. s \in Signals
    BY PatientInputs
  <2> QED  BY <2>1, PatientInputs
<1>4. \A s \in Patient : \A c \in Range(Inputs[s]) : Seen(s, c)' = Seen(s, c)
  BY <1>3 DEF Seen
<1>5. ASSUME NEW s \in Patient, NEW c \in Range(Inputs[s]),
             ready'[c] \/ setting' = c \/ stime'[c] > stime'[s]
      PROVE  ~Seen(s, c)'
  <2>1. c \in Signals /\ Type[c] = "CONSTANT" /\ s \in Signals
    BY <1>3
  <2>2. stime[s] \in Nat /\ stime[c] \in Nat /\ now \in Nat /\ stime[s] <= now
    BY <1>1, <2>1 DEF ConstantsInv, Attentive, TypeOK
  <2>3. stime[s] <= stime'[s]
    BY <2>1, <2>2
  <2>4. ready[c] \/ setting = c \/ stime[c] > stime[s]
    <3>1. CASE stime'[c] = stime[c]
      BY <1>5, <2>1, <2>2, <2>3, <3>1
    <3>2. CASE stime'[c] # stime[c]
      BY <2>1, <3>2
    <3> QED  BY <3>1, <3>2
  <2> QED  BY <1>1, <1>4, <2>4 DEF NewsInv
<1>6. \A s \in Patient : lastAsk'[s] => AllNew(s)'
  BY <1>1, <1>4 DEF NewsInv, AllNew
<1>7. ASSUME NEW s \in Patient, ready'[s], copy'[s] # {} PROVE FALSE
  <2>1. ready[s] /\ copy[s] # {}
    BY <1>3, <1>7
  <2>2. At("access", "ran") /\ top.sig = s
    BY <1>1, <2>1 DEF NewsInv
  <2> QED  BY <1>7, <2>2
<1>8. \A s \in Patient : \A c \in Range(Inputs[s]) :
        \A v \in Nat : <<c, v>> \in copy'[s] => v <= version'[c]
  BY <1>1, <1>3 DEF NewsInv
<1> QED  BY <1>2, <1>5, <1>6, <1>7, <1>8 DEF NewsInv

----------------------------------------------------------------------------
(* The steps of needUpdate().                                              *)

\* needUpdate() answers.
LEMMA PatientAnswers ==
  ASSUME PlainChildren, Attentive, stack # <<>>, top.op = "need",
         NEW yes \in BOOLEAN, ReturnAnswer(yes),
         yes /\ top.sig \in Patient => AllNew(top.sig),
         yes /\ top.sig \notin TimeDep => ready[top.sig],
         UNCHANGED <<stime, ready, copy, deps, version, setting, now>>,
         \A s \in Patient : lastAsk'[s] => lastAsk[s] \/ AllNew(s)
  PROVE  PatientInv'
<1>1. ConstantsInv' /\ NewsInv'
  <2>1. ~At("access", "ran")
    BY DEF At
  <2> QED  BY <2>1, PatientResults
<1>2. stack' = Tail(stack) /\ (answer' => yes)
  BY DEF ReturnAnswer
<1>3. ASSUME NEW g \in Frames, Pending(g), PatientFrame(g), Calls(g, top), g.sig \in Patient
      PROVE  PatientTold(g)'
  <2>1. ~(g.op = "access" /\ g.at = "input")
    BY <1>3, PatientWaits
  <2>2. ASSUME g.op = "need", g.at = "asked", answer',
               deps[g.sig][g.it] \in Range(Inputs[g.sig])
        PROVE  ~Seen(g.sig, deps[g.sig][g.it])
    <3>1. top.sig = deps[g.sig][g.it] /\ top.sig \notin TimeDep
      BY <1>3, <2>2, PatientInputs DEF Calls
    <3>2. ready[top.sig]
      BY <1>2, <2>2, <3>1
    <3>3. NewsInv
      BY PatientTop
    <3> QED  BY <1>3, <2>2, <3>1, <3>2, <3>3 DEF NewsInv
  <2>3. ASSUME g.op = "access", g.at = "asked", answer' PROVE AllNew(g.sig)
    BY <1>2, <1>3, <2>3 DEF Calls
  <2> QED  BY <2>1, <2>2, <2>3 DEF PatientTold, AllNew, Seen
<1>4. \A g : g.sig \notin Patient => PatientTold(g)'
  BY DEF PatientTold
<1>5. PatientStays
  BY PatientStaysNeed
<1>6. PatientStack'
  BY <1>2, <1>3, <1>4, <1>5, PatientTop, PatientReturns
<1> QED  BY <1>1, <1>6 DEF PatientInv

LEMMA PatientEnter ==
  ASSUME PlainChildren, Attentive, NeedEnter
  PROVE  PatientInv'
<1> DEFINE s == top.sig
           yes == \/ ready[s]
                  \/ s \in TimeDep /\ (lastAsk[s] \/ Kind[s] = "ALWAYS_READY")
           no  == \/ s \notin TimeDep
                  \/ Kind[s] = "TIME_DEPENDENT" /\ now < stime[s] + Period[s]
<1>1. /\ stack # <<>> /\ top.op = "need" /\ top.at = "enter"
      /\ UNCHANGED <<stime, ready, lastAsk, copy, deps, version, setting, now>>
  BY DEF NeedEnter, At, signalVars, clockVars, setVars
<1>2. \/ yes /\ ReturnAnswer(TRUE)
      \/ ReturnAnswer(FALSE)
      \/ ~no /\ Goto([top EXCEPT !.at = "loop"])
  BY DEF NeedEnter
<1>3. yes /\ s \in Patient => AllNew(s)
  <2>1. ASSUME s \in Patient, ready[s] PROVE AllNew(s)
    <3>1. copy[s] = {}
      BY <1>1, <2>1, PatientTop DEF NewsInv, At
    <3> QED  BY <3>1 DEF AllNew, Seen
  <2>2. ASSUME s \in Patient, lastAsk[s] PROVE AllNew(s)
    BY <1>1, <2>2, PatientTop DEF NewsInv
  <2>3. s \in Patient => Kind[s] # "ALWAYS_READY"
    BY DEF PlainChildren
  <2> QED  BY <2>1, <2>2, <2>3
<1>4. yes /\ s \notin TimeDep => ready[s]
  OBVIOUS
<1>5. no \/ s \in TimeDep
  OBVIOUS
<1> HIDE DEF yes, no
<1>6. CASE yes /\ ReturnAnswer(TRUE)
  BY <1>1, <1>3, <1>4, <1>6, PatientAnswers
<1>7. CASE ReturnAnswer(FALSE)
  BY <1>1, <1>7, PatientAnswers
<1>8. CASE ~no /\ Goto([top EXCEPT !.at = "loop"])
  <2>1. "loop" \in Places
    BY DEF Places
  <2>2. PICK f \in Frames : /\ f = [top EXCEPT !.at = "loop"]
                            /\ f.op = top.op /\ f.sig = top.sig /\ f.at = "loop"
                            /\ f.it = top.it /\ f.acc = top.acc
    BY <1>1, <2>1, PatientTop, MovedTop
  <2>3. Goto(f)
    BY <1>8, <2>2
  <2>4. f.op = "need" /\ f.sig \in TimeDep /\ f.it = 1
    BY <1>1, <1>5, <1>8, <2>2, PatientTop DEF PatientFrame, PlaceOf
  <2>5. PatientNeed(f)'
    <3>1. f.sig \in Patient => DOMAIN deps[f.sig] = 1 .. Len(deps[f.sig])
      BY PatientInputs
    <3>2. f.sig \in Patient => \A k \in DOMAIN deps[f.sig] : ~(k < f.it)
      BY <2>4, <3>1
    <3> QED  BY <1>1, <3>2 DEF PatientNeed
  <2>6. PatientFrame(f)' /\ PatientTold(f)'
    BY <2>2, <2>4, <2>5 DEF PatientFrame, PlaceOf, PatientAccess, ConstantAccess, PatientTold
  <2>7. PatientStays
    BY <1>1, PatientStaysNeed
  <2>8. PatientStack'
    BY <1>1, <2>2, <2>3, <2>6, <2>7, PatientTop, PatientGoes
  <2>9. ConstantsInv' /\ NewsInv'
    <3>1. ~At("access", "ran")
      BY <1>1 DEF At
    <3> QED  BY <1>1, <3>1, PatientResults
  <2> QED  BY <2>8, <2>9 DEF PatientInv
<1> QED  BY <1>2, <1>6, <1>7, <1>8

\* A dependency has been looked at; if it is an input of a patient function and a reason
\* to update, then it is new.
LEMMA PatientVerdict ==
  ASSUME PlainChildren, Attentive, stack # <<>>, top.op = "need",
         top.at \in {"loop", "asked"}, NEW yes \in BOOLEAN, NeedVerdict(yes),
         yes /\ top.sig \in Patient /\ deps[top.sig][top.it] \in Range(Inputs[top.sig])
           => ~Seen(top.sig, deps[top.sig][top.it]),
         UNCHANGED <<stime, ready, copy, deps, version, setting, now>>
  PROVE  PatientInv'
<1>1. /\ top \in Frames /\ top.sig \in Signals /\ top.sig \in TimeDep
      /\ top.it \in Nat \ {0} /\ PatientNeed(top)
      /\ lastAsk \in [Signals -> BOOLEAN]
  BY PatientTop DEF PatientFrame, PlaceOf, TypeOK
<1>2. CASE yes = (top.sig \in AllChildren)
  <2>1. /\ Goto([top EXCEPT !.at = "loop", !.it = @ + 1]) /\ lastAsk' = lastAsk
    BY <1>2 DEF NeedVerdict
  <2>2. "loop" \in Places
    BY DEF Places
  <2>3. PICK f \in Frames : f = [top EXCEPT !.at = "loop", !.it = @ + 1]
    BY <1>1, <2>2, FrameUpdates
  <2>4. f.op = "need" /\ f.sig = top.sig /\ f.at = "loop" /\ f.it = top.it + 1
    BY <1>1, <2>2, <2>3, NextFields
  <2>5. PatientNeed(f)'
    <3> SUFFICES ASSUME f.sig \in Patient, NEW k \in DOMAIN deps[f.sig], k < f.it,
                        deps[f.sig][k] \in Range(Inputs[f.sig])
                 PROVE  ~Seen(f.sig, deps[f.sig][k])
      BY DEF PatientNeed, Seen
    <3>1. k \in Nat /\ f.sig \in AllChildren
      BY PatientInputs
    <3>2. k < top.it \/ k = top.it
      BY <1>1, <2>4, <3>1
    <3> QED  BY <1>1, <1>2, <2>4, <3>1, <3>2 DEF PatientNeed
  <2>6. PatientFrame(f)' /\ PatientTold(f)'
    BY <1>1, <2>4, <2>5 DEF PatientFrame, PlaceOf, PatientAccess, ConstantAccess, PatientTold
  <2>7. PatientStays
    BY PatientStaysNeed
  <2>8. PatientStack'
    BY <2>1, <2>3, <2>4, <2>6, <2>7, PatientTop, PatientGoes
  <2>9. ConstantsInv' /\ NewsInv'
    <3>1. ~At("access", "ran")
      BY DEF At
    <3> QED  BY <2>1, <3>1, PatientResults
  <2> QED  BY <2>8, <2>9 DEF PatientInv
<1>3. CASE yes # (top.sig \in AllChildren)
  <2>1. NeedResult(yes)
    BY <1>3 DEF NeedVerdict
  <2>2. ReturnAnswer(yes) /\ lastAsk' = [lastAsk EXCEPT ![top.sig] = yes]
    BY <2>1 DEF NeedResult
  <2>3. top.sig \in Patient => ~yes
    BY <1>3 DEF Patient
  <2>4. \A s \in Patient : lastAsk'[s] => lastAsk[s]
    BY <1>1, <2>2, <2>3, PatientInputs
  <2> QED  BY <1>1, <2>2, <2>3, <2>4, PatientAnswers
<1> QED  BY <1>2, <1>3

LEMMA PatientDependency ==
  ASSUME PlainChildren, Attentive, NeedDependency
  PROVE  PatientInv'
<1> DEFINE d == deps[top.sig][top.it]
<1>1. /\ stack # <<>> /\ top.op = "need" /\ top.at = "loop" /\ top.it <= Len(deps[top.sig])
      /\ UNCHANGED <<stime, ready, copy, deps, version, setting, now>>
  BY DEF NeedDependency, At, clockVars, setVars
<1>2. /\ top \in Frames /\ top.sig \in Signals /\ top.sig \in TimeDep
      /\ top.it \in Nat \ {0} /\ PatientFrame(top) /\ NewsInv
  BY <1>1, PatientTop DEF PatientFrame, PlaceOf
<1>3. CASE stime[d] > stime[top.sig]
  <2>1. NeedVerdict(TRUE)
    BY <1>3 DEF NeedDependency
  <2>2. top.sig \in Patient /\ d \in Range(Inputs[top.sig]) => ~Seen(top.sig, d)
    BY <1>2, <1>3 DEF NewsInv
  <2> QED  BY <1>1, <2>1, <2>2, PatientVerdict
<1>4. CASE ~(stime[d] > stime[top.sig])
  <2>1. /\ GotoCall([top EXCEPT !.at = "asked"], CallNeed(d)) /\ lastAsk' = lastAsk
    BY <1>4 DEF NeedDependency
  <2>2. "asked" \in Places
    BY DEF Places
  <2>3. PICK f \in Frames : /\ f = [top EXCEPT !.at = "asked"]
                            /\ f.op = top.op /\ f.sig = top.sig /\ f.at = "asked"
                            /\ f.it = top.it /\ f.acc = top.acc
    BY <1>2, <2>2, MovedTop
  <2>4. top.it \in DOMAIN deps[top.sig] /\ d \in Signals
    <3>1. deps[top.sig] \in Seq(Signals)
      BY <1>1, <1>2, PatientTop DEF TypeOK
    <3> QED  BY <1>1, <1>2, <3>1, ElementOfSeq, LenProperties
  <2>5. PICK c \in Frames : /\ c = CallNeed(d) /\ c.op = "need" /\ c.sig = d
                            /\ c.at = "enter" /\ c.it = 1
    BY <2>4, FrameTypes DEF CallNeed, Frame
  <2>6. GotoCall(f, c) /\ Calls(f, c)
    BY <1>1, <2>1, <2>3, <2>4, <2>5 DEF Calls
  <2>7. PatientFrame(f)'
    BY <1>1, <1>2, <2>3
       DEF PatientFrame, PlaceOf, PatientNeed, PatientAccess, ConstantAccess, Seen
  <2>8. PatientFrame(c)'
    BY <2>5 DEF PatientFrame, PlaceOf, PatientNeed, PatientAccess, ConstantAccess
  <2>9. PatientStays
    BY <1>1, PatientStaysNeed
  <2>10. PatientStack'
    BY <1>1, <2>3, <2>5, <2>6, <2>7, <2>8, <2>9, PatientTop, PatientCalls
  <2>11. ConstantsInv' /\ NewsInv'
    <3>1. ~At("access", "ran")
      BY <1>1 DEF At
    <3> QED  BY <1>1, <2>1, <3>1, PatientResults
  <2> QED  BY <2>10, <2>11 DEF PatientInv
<1> QED  BY <1>3, <1>4

LEMMA PatientAsked ==
  ASSUME PlainChildren, Attentive, NeedAsked
  PROVE  PatientInv'
<1>1. /\ stack # <<>> /\ top.op = "need" /\ top.at = "asked" /\ NeedVerdict(answer)
      /\ UNCHANGED <<stime, ready, copy, deps, version, setting, now>>
  BY DEF NeedAsked, At, clockVars, setVars
<1>2. answer \in BOOLEAN /\ PatientTold(top)
  BY <1>1, PatientTop DEF TypeOK
<1>3. answer /\ top.sig \in Patient /\ deps[top.sig][top.it] \in Range(Inputs[top.sig])
        => ~Seen(top.sig, deps[top.sig][top.it])
  BY <1>1, <1>2 DEF PatientTold
<1> QED  BY <1>1, <1>2, <1>3, PatientVerdict

\* Every dependency was a reason.
LEMMA PatientLoopEnds ==
  ASSUME PlainChildren, Attentive, NeedLoopEnds
  PROVE  PatientInv'
<1>1. /\ stack # <<>> /\ top.op = "need" /\ top.at = "loop" /\ top.it > Len(deps[top.sig])
      /\ ReturnAnswer(top.sig \in AllChildren)
      /\ lastAsk' = [lastAsk EXCEPT ![top.sig] = (top.sig \in AllChildren)]
      /\ UNCHANGED <<stime, ready, copy, deps, version, setting, now>>
  BY DEF NeedLoopEnds, NeedResult, At, clockVars, setVars
<1>2. /\ top.sig \in Signals /\ top.sig \in TimeDep /\ top.it \in Nat /\ PatientNeed(top)
      /\ lastAsk \in [Signals -> BOOLEAN]
  BY <1>1, PatientTop DEF PatientFrame, PlaceOf, TypeOK
<1>3. ASSUME top.sig \in Patient PROVE AllNew(top.sig)
  <2> SUFFICES ASSUME NEW c \in Range(Inputs[top.sig]) PROVE ~Seen(top.sig, c)
    BY DEF AllNew
  <2>1. PICK k \in DOMAIN deps[top.sig] : deps[top.sig][k] = c
    BY <1>3, PatientInputs
  <2>2. k < top.it
    BY <1>1, <1>2, <1>3, PatientInputs
  <2> QED  BY <1>1, <1>2, <1>3, <2>1, <2>2 DEF PatientNeed
<1>4. \A s \in Patient : lastAsk'[s] => lastAsk[s] \/ AllNew(s)
  BY <1>1, <1>2, <1>3, PatientInputs
<1>5. (top.sig \in AllChildren) \in BOOLEAN
  OBVIOUS
<1> QED  BY <1>1, <1>2, <1>3, <1>4, <1>5, PatientAnswers

----------------------------------------------------------------------------
(* The steps of access().                                                  *)

\* A step inside an access() that tells nobody anything new.
LEMMA PatientMoves ==
  ASSUME PlainChildren, Attentive, stack # <<>>, top.op = "access",
         UNCHANGED <<deps, version, setting, now>>,
         \A s \in Signals : ready'[s] => ready[s],
         \A s \in Signals : \/ stime'[s] = stime[s]
                            \/ stime'[s] = now /\ (Type[s] = "CONSTANT" => ready[s]),
         \A s \in Signals : \/ copy'[s] = copy[s]
                            \/ s \notin Patient /\ Type[s] # "CONSTANT",
         \A s \in Signals : lastAsk'[s] => lastAsk[s],
         top.at # "ran", NEW f \in Frames, f.op = top.op, f.sig = top.sig, Goto(f),
         f.at \notin {"asked", "input"}, PatientFrame(f)'
  PROVE  PatientInv'
<1>1. ConstantsInv' /\ NewsInv'
  <2>1. ~At("access", "ran")
    BY DEF At
  <2>2. \A s \in Patient : lastAsk'[s] => lastAsk[s]
    BY PatientInputs
  <2> QED  BY <2>1, <2>2, PatientResults
<1>2. PatientStays
  <2>1. \A s \in Signals : stime'[s] \in {stime[s], now}
    OBVIOUS
  <2> QED  BY <2>1, PatientStaysAccess
<1>3. PatientTold(f)'
  BY DEF PatientTold
<1>4. PatientStack'
  BY <1>2, <1>3, PatientTop, PatientGoes
<1> QED  BY <1>1, <1>4 DEF PatientInv

\* It calls.
LEMMA PatientAccessCalls ==
  ASSUME PlainChildren, Attentive, stack # <<>>, top.op = "access", top.at # "ran",
         UNCHANGED <<signalVars, version, setting, now>>,
         NEW f \in Frames, NEW c \in Frames, f.op = top.op, f.sig = top.sig, GotoCall(f, c),
         Calls(f, c), c.at \notin {"asked", "input"}, PatientFrame(f)', PatientFrame(c)'
  PROVE  PatientInv'
<1>1. UNCHANGED <<stime, ready, lastAsk, deps, copy>>
  BY DEF signalVars
<1>2. ConstantsInv' /\ NewsInv'
  <2>1. ~At("access", "ran")
    BY DEF At
  <2> QED  BY <1>1, <2>1, PatientResults
<1>3. PatientStays
  BY <1>1, PatientStaysAccess
<1>4. PatientStack'
  BY <1>1, <1>3, PatientTop, PatientCalls
<1> QED  BY <1>2, <1>4 DEF PatientInv

\* A new call has found out nothing.
LEMMA PatientNew ==
  ASSUME NEW s \in Signals
  PROVE  /\ \E c \in Frames : /\ c = CallNeed(s) /\ c.op = "need" /\ c.sig = s
                              /\ c.at = "enter" /\ PatientFrame(c)'
         /\ \E c \in Frames : /\ c = CallAccess(s) /\ c.op = "access" /\ c.sig = s
                              /\ c.at \in {"ask", "run"} /\ PatientFrame(c)'
<1>1. PICK c \in Frames : /\ c = CallNeed(s) /\ c.op = "need" /\ c.sig = s
                          /\ c.at = "enter" /\ c.it = 1
  BY FrameTypes DEF CallNeed, Frame
<1>2. PatientFrame(c)'
  BY <1>1 DEF PatientFrame, PlaceOf, PatientNeed, PatientAccess, ConstantAccess
<1>3. PICK a \in Frames : /\ a = CallAccess(s) /\ a.op = "access" /\ a.sig = s
                          /\ a.at = (IF s \in TimeDep THEN "ask" ELSE "run")
                          /\ a.acc = {}
  BY FrameTypes DEF CallAccess, Frame
<1>4. s \in Patient => s \in TimeDep
  BY GraphAssumption DEF Patient
<1>5. PatientFrame(a)'
  BY <1>3, <1>4 DEF PatientFrame, PlaceOf, PatientNeed, PatientAccess, ConstantAccess
<1> QED  BY <1>1, <1>2, <1>3, <1>5

LEMMA PatientAsk ==
  ASSUME PlainChildren, Attentive, AccessAsk
  PROVE  PatientInv'
<1>1. /\ stack # <<>> /\ top.op = "access" /\ top.at = "ask"
      /\ GotoCall([top EXCEPT !.at = "asked"], CallNeed(top.sig))
      /\ UNCHANGED <<signalVars, version, setting, now>>
  BY DEF AccessAsk, At, clockVars, setVars
<1>2. top \in Frames /\ top.sig \in Signals /\ PatientFrame(top)
  BY <1>1, PatientTop
<1>3. "asked" \in Places
  BY DEF Places
<1>4. PICK f \in Frames : /\ f = [top EXCEPT !.at = "asked"]
                          /\ f.op = top.op /\ f.sig = top.sig /\ f.at = "asked"
                          /\ f.it = top.it /\ f.acc = top.acc
  BY <1>2, <1>3, MovedTop
<1>5. PICK c \in Frames : /\ c = CallNeed(top.sig) /\ c.op = "need" /\ c.sig = top.sig
                          /\ c.at = "enter" /\ PatientFrame(c)'
  BY <1>2, PatientNew
<1>6. GotoCall(f, c) /\ Calls(f, c)
  BY <1>1, <1>4, <1>5 DEF Calls
<1>7. PatientFrame(f)'
  BY <1>1, <1>2, <1>4 DEF PatientFrame, PlaceOf, PatientNeed, PatientAccess, ConstantAccess
<1> QED  BY <1>1, <1>4, <1>5, <1>6, <1>7, PatientAccessCalls

LEMMA PatientUpdate ==
  ASSUME PlainChildren, Attentive, AccessUpdate
  PROVE  PatientInv'
<1>1. /\ stack # <<>> /\ top.op = "access" /\ top.at = "asked" /\ answer
      /\ lastAsk' = [lastAsk EXCEPT ![top.sig] = FALSE]
      /\ Goto([top EXCEPT !.at = "run"])
      /\ UNCHANGED <<stime, ready, deps, copy, version, setting, now>>
  BY DEF AccessUpdate, At, clockVars, setVars
<1>2. /\ top \in Frames /\ top.sig \in Signals /\ PatientFrame(top) /\ PatientTold(top)
      /\ lastAsk \in [Signals -> BOOLEAN]
  BY <1>1, PatientTop DEF TypeOK
<1>3. "run" \in Places
  BY DEF Places
<1>4. PICK f \in Frames : /\ f = [top EXCEPT !.at = "run"]
                          /\ f.op = top.op /\ f.sig = top.sig /\ f.at = "run"
                          /\ f.it = top.it /\ f.acc = top.acc
  BY <1>2, <1>3, MovedTop
<1>5. Goto(f) /\ ~lastAsk'[f.sig] /\ \A s \in Signals : lastAsk'[s] => lastAsk[s]
  BY <1>1, <1>2, <1>4
<1>6. f.sig \in Patient => AllNew(f.sig)'
  BY <1>1, <1>2, <1>4 DEF PatientTold, AllNew, Seen
<1>7. f.acc = {}
  BY <1>1, <1>2, <1>4 DEF PatientFrame, PlaceOf
<1>8. PatientFrame(f)'
  BY <1>1, <1>4, <1>5, <1>6, <1>7
     DEF PatientFrame, PlaceOf, PatientNeed, PatientAccess, ConstantAccess
<1> QED  BY <1>1, <1>4, <1>5, <1>8, PatientMoves

\* An access() returns; what it tells a patient function is the present version of a
\* constant that is not ready any more.
LEMMA PatientGives ==
  ASSUME PlainChildren, Attentive, stack # <<>>, top.op = "access",
         NEW v \in Values, stack' = Tail(stack), value' = IF outermost THEN {} ELSE v,
         UNCHANGED <<stime, lastAsk, deps, copy, version, setting, now>>,
         \A s \in Signals : ready'[s] => ready[s],
         At("access", "ran") /\ top.sig \in Patient => ~ready'[top.sig],
         Type[top.sig] = "CONSTANT" /\ top.sig \notin TimeDep =>
           v = {<<top.sig, version[top.sig]>>} /\ ~ready[top.sig]
  PROVE  PatientInv'
<1>1. ConstantsInv' /\ NewsInv'
  BY PatientResults
<1>2. PatientStays
  BY PatientStaysAccess
<1>3. ASSUME NEW g \in Frames, ~outermost, Pending(g), Calls(g, top) PROVE PatientTold(g)'
  <2>1. g.op = "access" /\ g.at = "input"
    BY <1>3, PatientWaits
  <2>2. ASSUME g.sig \in Patient, NEW p \in value' PROVE Taken(g.sig, p)'
    <3>1. top.sig \in Range(Inputs[g.sig])
      BY <1>3, <2>1, <2>2, PatientInputs DEF Calls
    <3>2. top.sig \in Signals /\ Type[top.sig] = "CONSTANT" /\ top.sig \notin TimeDep
      BY <2>2, <3>1, PatientInputs
    <3>3. p = <<top.sig, version[top.sig]>> /\ ~ready'[top.sig]
      BY <1>3, <2>2, <3>2
    <3> QED  BY <3>1, <3>3 DEF Taken
  <2> QED  BY <2>1, <2>2 DEF PatientTold
<1>4. PatientStack'
  BY <1>2, <1>3, PatientTop, PatientReturns
<1> QED  BY <1>1, <1>4 DEF PatientInv

LEMMA PatientCached ==
  ASSUME PlainChildren, Attentive, AccessCached
  PROVE  PatientInv'
<1>1. /\ stack # <<>> /\ top.op = "access" /\ top.at = "asked"
      /\ ReturnValue(copy[top.sig])
      /\ UNCHANGED <<stime, ready, lastAsk, deps, copy, version, setting, now>>
  BY DEF AccessCached, At, signalVars, clockVars, setVars
<1>2. top.sig \in TimeDep /\ copy[top.sig] \in Values
  BY <1>1, PatientTop DEF PatientFrame, PlaceOf, TypeOK
<1>3. ~At("access", "ran")
  BY <1>1 DEF At
<1> QED  BY <1>1, <1>2, <1>3, PatientGives DEF ReturnValue

LEMMA PatientReturned ==
  ASSUME PlainChildren, Attentive, AccessReturns
  PROVE  PatientInv'
<1>1. /\ stack # <<>> /\ top.op = "access" /\ top.at = "ran" /\ ReturnValue(top.acc)
      /\ ready' = IF top.sig \in TimeDep THEN [ready EXCEPT ![top.sig] = FALSE] ELSE ready
      /\ UNCHANGED <<stime, lastAsk, deps, copy, version, setting, now>>
  BY DEF AccessReturns, At, clockVars, setVars
<1>2. /\ top.sig \in Signals /\ top.acc \in Values /\ PatientFrame(top)
      /\ ready \in [Signals -> BOOLEAN]
  BY <1>1, PatientTop DEF TypeOK
<1>3. \A s \in Signals : ready'[s] => ready[s]
  BY <1>1, <1>2
<1>4. top.sig \in Patient => ~ready'[top.sig]
  <2>1. top.sig \in Patient => top.sig \in TimeDep
    BY PatientInputs
  <2> QED  BY <1>1, <1>2, <2>1
<1>5. Type[top.sig] = "CONSTANT" =>
        top.acc = {<<top.sig, version[top.sig]>>} /\ ~ready[top.sig]
  BY <1>1, <1>2 DEF PatientFrame, ConstantAccess
<1> QED  BY <1>1, <1>2, <1>3, <1>4, <1>5, PatientGives DEF ReturnValue

LEMMA PatientRuns ==
  ASSUME PlainChildren, Attentive, RunConstant \/ RunFunction
  PROVE  PatientInv'
<1>1. /\ stack # <<>> /\ top.op = "access" /\ top.at = "run"
      /\ UNCHANGED <<lastAsk, deps, copy, version, setting, now>>
  BY DEF RunConstant, RunFunction, At, clockVars, setVars
<1>2. /\ top \in Frames /\ top.sig \in Signals /\ PatientFrame(top)
      /\ stime \in [Signals -> Nat] /\ ready \in [Signals -> BOOLEAN]
  BY <1>1, PatientTop DEF TypeOK
<1>3. CASE RunConstant
  <2>1. /\ Type[top.sig] = "CONSTANT" /\ ready' = [ready EXCEPT ![top.sig] = FALSE]
        /\ stime' = IF ready[top.sig] THEN [stime EXCEPT ![top.sig] = now] ELSE stime
        /\ Goto([top EXCEPT !.at = "copy"])
    BY <1>3 DEF RunConstant
  <2>2. "copy" \in Places
    BY DEF Places
  <2>3. PICK f \in Frames : /\ f = [top EXCEPT !.at = "copy"]
                            /\ f.op = top.op /\ f.sig = top.sig /\ f.at = "copy"
                            /\ f.it = top.it /\ f.acc = top.acc
    BY <1>2, <2>2, MovedTop
  <2>4. Goto(f)
    BY <2>1, <2>3
  <2>5. f.sig \notin Patient /\ ~ready'[f.sig]
    BY <1>2, <2>1, <2>3 DEF Patient
  <2>6. PatientFrame(f)'
    BY <1>1, <2>1, <2>3, <2>5
       DEF PatientFrame, PlaceOf, PatientNeed, PatientAccess, ConstantAccess
  <2>7. \A s \in Signals : /\ ready'[s] => ready[s]
                           /\ stime'[s] = stime[s] \/ (stime'[s] = now /\ ready[s])
    BY <1>2, <2>1
  <2> QED  BY <1>1, <2>3, <2>4, <2>6, <2>7, PatientMoves
<1>4. CASE RunFunction
  <2>1. /\ Type[top.sig] = "FUNCTION" /\ ready' = ready
        /\ stime' = [stime EXCEPT ![top.sig] = now]
        /\ Goto([top EXCEPT !.at = "body"])
    BY <1>4 DEF RunFunction
  <2>2. "body" \in Places
    BY DEF Places
  <2>3. PICK f \in Frames : /\ f = [top EXCEPT !.at = "body"]
                            /\ f.op = top.op /\ f.sig = top.sig /\ f.at = "body"
                            /\ f.it = top.it /\ f.acc = top.acc
    BY <1>2, <2>2, MovedTop
  <2>4. Goto(f)
    BY <2>1, <2>3
  <2>5. f.acc = {} /\ stime'[f.sig] = now'
    BY <1>1, <1>2, <2>1, <2>3 DEF PatientFrame, PlaceOf
  <2>6. f.sig \in Patient => ~lastAsk'[f.sig]
    BY <1>1, <1>2, <2>3 DEF PatientFrame, PatientAccess
  <2>7. PatientFrame(f)'
    BY <1>1, <2>1, <2>3, <2>5, <2>6
       DEF PatientFrame, PlaceOf, PatientNeed, PatientAccess, ConstantAccess
  <2>8. \A s \in Signals : \/ stime'[s] = stime[s]
                           \/ stime'[s] = now /\ (Type[s] = "CONSTANT" => ready[s])
    BY <1>2, <2>1
  <2> QED  BY <1>1, <2>1, <2>3, <2>4, <2>7, <2>8, PatientMoves
<1> QED  BY <1>3, <1>4

LEMMA PatientReads ==
  ASSUME PlainChildren, Attentive, ReadConstant \/ RunReference
  PROVE  PatientInv'
<1>1. /\ stack # <<>> /\ top.op = "access" /\ top.at \in {"copy", "run"}
      /\ UNCHANGED <<ready, lastAsk, deps, version, setting, now>>
  BY DEF ReadConstant, RunReference, At, signalVars, clockVars, setVars
<1>2. /\ top \in Frames /\ top.sig \in Signals /\ PatientFrame(top) /\ ConstantsInv
      /\ stime \in [Signals -> Nat] /\ copy \in [Signals -> Values]
      /\ version[top.sig] \in Nat
      /\ top = [op |-> top.op, sig |-> top.sig, at |-> top.at, it |-> top.it,
                acc |-> top.acc]
  BY <1>1, PatientTop DEF TypeOK
<1> DEFINE v == {<<top.sig, version[top.sig]>>}
<1>3. /\ Goto([top EXCEPT !.at = "ran", !.acc = v])
      /\ Type[top.sig] # "FUNCTION" /\ (Type[top.sig] = "CONSTANT" => ~ready[top.sig])
      /\ \A s \in Signals : \/ copy'[s] = copy[s]
                            \/ s \notin Patient /\ Type[s] # "CONSTANT"
      /\ \A s \in Signals : \/ stime'[s] = stime[s]
                            \/ stime'[s] = now /\ Type[s] # "CONSTANT"
  <2>1. CASE ReadConstant
    <3>1. top.at = "copy" /\ UNCHANGED <<stime, copy>>
          /\ Goto([top EXCEPT !.at = "ran", !.acc = copy[top.sig]])
      BY <2>1 DEF ReadConstant, At, signalVars
    <3>2. Type[top.sig] = "CONSTANT" /\ ~ready[top.sig]
      BY <1>1, <1>2, <3>1 DEF PatientFrame, PlaceOf, ConstantAccess
    <3>3. copy[top.sig] = v
      BY <1>2, <3>2 DEF ConstantsInv
    <3> QED  BY <3>1, <3>2, <3>3
  <2>2. CASE RunReference
    <3>1. /\ Type[top.sig] = "REFERENCE" /\ copy' = [copy EXCEPT ![top.sig] = v]
          /\ stime' = [stime EXCEPT ![top.sig] = now]
          /\ Goto([top EXCEPT !.at = "ran", !.acc = v])
      BY <2>2 DEF RunReference, SetTcopy
    <3>2. top.sig \notin Patient
      BY <3>1 DEF Patient
    <3> QED  BY <1>2, <3>1, <3>2
  <2> QED  BY <2>1, <2>2
<1>4. "ran" \in Places /\ v \in Values
  BY <1>2, ValueTypes DEF Places
<1> HIDE DEF v
<1>5. PICK f \in Frames : f = [top EXCEPT !.at = "ran", !.acc = v]
  BY <1>2, <1>4, FrameUpdates
<1>6. f.op = "access" /\ f.sig = top.sig /\ f.at = "ran" /\ f.acc = v
  BY <1>1, <1>2, <1>5
<1>7. PatientFrame(f)'
  <2>1. f.sig \notin Patient
    BY <1>3, <1>6 DEF Patient
  <2>2. ConstantAccess(f)'
    BY <1>1, <1>3, <1>6 DEF ConstantAccess, v
  <2> QED  BY <1>6, <2>1, <2>2 DEF PatientFrame, PlaceOf, PatientNeed, PatientAccess
<1>8. Goto(f) /\ f.op = top.op
  BY <1>1, <1>3, <1>5, <1>6
<1> QED  BY <1>1, <1>3, <1>6, <1>7, <1>8, PatientMoves

----------------------------------------------------------------------------
(* The steps of a Tfunction.                                               *)

LEMMA PatientBody ==
  ASSUME PlainChildren, Attentive, BodyReads \/ BodyGets
  PROVE  PatientInv'
<1>1. /\ stack # <<>> /\ top.op = "access" /\ top.at \in {"body", "input"}
      /\ UNCHANGED <<signalVars, stime, ready, lastAsk, deps, copy, version, setting, now>>
  BY DEF BodyReads, BodyGets, At, signalVars, clockVars, setVars
<1>2. /\ top \in Frames /\ top.sig \in Signals /\ top.it \in Nat \ {0} /\ top.acc \in Values
      /\ Type[top.sig] = "FUNCTION" /\ PatientAccess(top) /\ PatientTold(top)
      /\ copy \in [Signals -> Values] /\ value \in Values
      /\ top = [op |-> top.op, sig |-> top.sig, at |-> top.at, it |-> top.it,
                acc |-> top.acc]
  BY <1>1, PatientTop DEF PatientFrame, PlaceOf, TypeOK
<1>3. "body" \in Places /\ "input" \in Places
  BY DEF Places
<1>4. ASSUME NEW f \in Frames, f.op = top.op, f.sig = top.sig, Goto(f), f.at = "body",
             f.sig \in Patient => \A p \in f.acc : Taken(f.sig, p)
      PROVE  PatientInv'
  <2>1. PatientFrame(f)'
    BY <1>1, <1>2, <1>4
       DEF PatientFrame, PlaceOf, PatientNeed, PatientAccess, ConstantAccess, Taken
  <2> QED  BY <1>1, <1>4, <2>1, PatientMoves
<1>5. CASE BodyReads
  <2> DEFINE d == Inputs[top.sig][top.it]
             next == [top EXCEPT !.it = @ + 1]
  <2>1. top.it \in DOMAIN Inputs[top.sig] /\ d \in Signals /\ top.at = "body"
    <3>1. Inputs[top.sig] \in Seq(Signals)
      BY <1>2, GraphAssumption
    <3> QED  BY <1>2, <1>5, <3>1, ElementOfSeq, LenProperties DEF BodyReads, At
  <2>2. /\ next \in Frames /\ next.op = top.op /\ next.sig = top.sig
        /\ next.at = top.at /\ next.acc = top.acc /\ next.it = top.it + 1
    BY <1>2, FrameUpdates
  <2>3. IF top.sig \in ByCopy
        THEN Goto([next EXCEPT !.acc = next.acc \cup copy[d]])
        ELSE GotoCall([next EXCEPT !.at = "input"], CallAccess(d))
    BY <1>5 DEF BodyReads
  <2> HIDE DEF next
  <2>4. CASE top.sig \in ByCopy
    <3>1. PICK v \in Values : v = next.acc \cup copy[d]
      BY <1>2, <2>1, <2>2, ValueTypes
    <3>2. PICK f \in Frames : f = [next EXCEPT !.acc = v]
      BY <2>2, FrameUpdates
    <3>3. f.op = next.op /\ f.sig = next.sig /\ f.at = next.at
      <4>1. next = [op |-> next.op, sig |-> next.sig, at |-> next.at, it |-> next.it,
                    acc |-> next.acc]
        BY <2>2 DEF Frames
      <4> QED  BY <3>2, <4>1
    <3>4. f.sig \notin Patient
      BY <2>2, <2>4, <3>3 DEF PlainChildren
    <3>5. Goto(f)
      BY <2>3, <2>4, <3>1, <3>2
    <3> QED  BY <1>4, <2>1, <2>2, <3>3, <3>4, <3>5
  <2>5. CASE top.sig \notin ByCopy
    <3>1. PICK f \in Frames : f = [next EXCEPT !.at = "input"]
      BY <1>3, <2>2, FrameUpdates
    <3>2. /\ f.op = top.op /\ f.sig = top.sig /\ f.at = "input"
          /\ f.it = top.it + 1 /\ f.acc = top.acc
      BY <1>3, <2>2, <3>1, FrameFields
    <3>3. PICK c \in Frames : /\ c = CallAccess(d) /\ c.op = "access" /\ c.sig = d
                              /\ c.at \in {"ask", "run"} /\ PatientFrame(c)'
      BY <2>1, PatientNew
    <3>4. GotoCall(f, c)
      BY <2>3, <2>5, <3>1, <3>3
    <3>5. Calls(f, c)
      <4>1. f.it - 1 = top.it
        BY <1>2, <3>2
      <4> QED  BY <1>1, <2>1, <3>2, <3>3, <4>1 DEF Calls
    <3> HIDE DEF d
    <3>6. PatientFrame(f)'
      BY <1>1, <1>2, <2>1, <3>2
         DEF PatientFrame, PlaceOf, PatientNeed, PatientAccess, ConstantAccess, Taken
    <3>7. c.at \notin {"asked", "input"} /\ top.at # "ran"
      BY <1>1, <3>3
    <3> QED  BY <1>1, <3>2, <3>4, <3>5, <3>3, <3>6, <3>7, PatientAccessCalls
  <2> QED  BY <2>4, <2>5
<1>6. CASE BodyGets
  <2>1. PICK v \in Values : v = top.acc \cup value
    BY <1>2, ValueTypes
  <2>2. top.at = "input" /\ Goto([top EXCEPT !.at = "body", !.acc = v])
    BY <1>6, <2>1 DEF BodyGets, At
  <2>3. PICK f \in Frames : f = [top EXCEPT !.at = "body", !.acc = v]
    BY <1>2, <1>3, FrameUpdates
  <2>4. f.op = top.op /\ f.sig = top.sig /\ f.at = "body" /\ f.acc = v
    BY <1>2, <2>3
  <2>5. f.sig \in Patient => \A p \in f.acc : Taken(f.sig, p)
    BY <1>1, <1>2, <2>1, <2>2, <2>4 DEF PatientAccess, PatientTold
  <2> QED  BY <1>4, <2>2, <2>3, <2>4, <2>5
<1> QED  BY <1>5, <1>6

\* A patient function has a new result, made from versions that it was the first to see.
LEMMA PatientEnds ==
  ASSUME PlainChildren, Attentive, BodyEnds
  PROVE  PatientInv'
<1> DEFINE s == top.sig
<1>1. /\ stack # <<>> /\ top.op = "access" /\ top.at = "body"
      /\ copy' = [copy EXCEPT ![s] = top.acc] /\ Goto([top EXCEPT !.at = "ran"])
      /\ UNCHANGED <<stime, ready, lastAsk, deps, version, setting, now>>
  BY DEF BodyEnds, SetTcopy, At, clockVars, setVars
<1>2. /\ TypeOK /\ top \in Frames /\ s \in Signals /\ Type[s] = "FUNCTION"
      /\ PatientAccess(top) /\ ConstantsInv /\ NewsInv /\ PatientStack
      /\ copy \in [Signals -> Values] /\ now \in Nat
  BY <1>1, PatientTop DEF PatientFrame, PlaceOf, TypeOK
<1>3. "ran" \in Places
  BY DEF Places
<1>4. PICK f \in Frames : /\ f = [top EXCEPT !.at = "ran"]
                          /\ f.op = top.op /\ f.sig = s /\ f.at = "ran"
                          /\ f.it = top.it /\ f.acc = top.acc
  BY <1>2, <1>3, MovedTop
<1>5. Goto(f)
  BY <1>1, <1>4
<1> HIDE DEF s
<1>6. PatientFrame(f)' /\ PatientTold(f)'
  BY <1>1, <1>2, <1>4
     DEF PatientFrame, PlaceOf, PatientNeed, PatientAccess, ConstantAccess, PatientTold
<1>7. PatientStays
  BY <1>1, PatientStaysAccess
<1>8. PatientStack'
  BY <1>1, <1>2, <1>4, <1>5, <1>6, <1>7, PatientGoes DEF s
<1>9. \A t \in Signals : t # s => copy'[t] = copy[t]
  BY <1>1, <1>2
<1>10. ConstantsInv'
  <2>1. \A c \in Signals : Type[c] = "CONSTANT" => c # s
    BY <1>2
  <2>2. setting = NoSignal
    BY <1>1, PatientAlone
  <2> QED  BY <1>1, <1>2, <1>9, <2>1, <2>2, PatientAlone DEF ConstantsInv, PlainChildren
<1>11. NewsInv'
  <2> SUFFICES ASSUME NEW t \in Patient
               PROVE  /\ \A c \in Range(Inputs[t]) :
                           /\ \A v \in Nat : <<c, v>> \in copy'[t] => v <= version[c]
                           /\ ready[c] \/ setting = c \/ stime[c] > stime[t]
                                => <<c, version[c]>> \notin copy'[t]
                      /\ lastAsk[t] =>
                           \A c \in Range(Inputs[t]) : <<c, version[c]>> \notin copy'[t]
                      /\ ready[t] /\ copy'[t] # {} => At("access", "ran")' /\ top'.sig = t
    BY <1>1 DEF NewsInv, AllNew, Seen
  <2>1. t \in Signals
    BY PatientInputs
  <2>2. CASE t # s
    <3>1. copy'[t] = copy[t] /\ ~(ready[t] /\ copy[t] # {})
      BY <1>1, <1>2, <1>9, <2>1, <2>2 DEF NewsInv, At
    <3> QED  BY <1>2, <3>1 DEF NewsInv, AllNew, Seen
  <2>3. CASE t = s
    <3>1. copy'[t] = top.acc
      BY <1>1, <1>2, <2>3
    <3>2. ~lastAsk[t] /\ stime[t] = now /\ \A p \in top.acc : Taken(t, p)
      BY <1>1, <1>2, <2>3 DEF PatientAccess, s
    <3>3. ASSUME NEW c \in Range(Inputs[t]), NEW v \in Nat, <<c, v>> \in copy'[t]
          PROVE  v <= version[c] /\ ~ready[c] /\ setting # c /\ ~(stime[c] > stime[t])
      <4>1. v = version[c] /\ ~ready[c]
        BY <3>1, <3>2, <3>3 DEF Taken
      <4>2. c \in Signals /\ setting = NoSignal /\ c # NoSignal
        BY <1>1, PatientInputs, PatientAlone, GraphAssumption
      <4>3. stime[c] <= now /\ stime[c] \in Nat
        BY <1>2, <4>2 DEF ConstantsInv, TypeOK
      <4> QED  BY <1>2, <3>2, <3>3, <4>1, <4>2, <4>3
    <3>4. \A c \in Range(Inputs[t]) : version[c] \in Nat
      BY <1>2, PatientInputs DEF TypeOK
    <3>5. At("access", "ran")' /\ top'.sig = t
      <4>1. stack' # <<>> /\ stack'[1] = f
        BY <1>1, <1>2, <1>5, GotoFrames
      <4>2. top' = f
        BY <4>1, <1>2, <1>5, <1>1, GotoShape DEF top, Goto, TypeOK
      <4> QED  BY <1>1, <1>4, <2>3, <4>1, <4>2 DEF At
    <3> QED  BY <3>2, <3>3, <3>4, <3>5
  <2> QED  BY <2>2, <2>3
<1> QED  BY <1>8, <1>10, <1>11 DEF PatientInv

LEMMA PatientThrows ==
  ASSUME PlainChildren, Attentive, BodyThrows
  PROVE  PatientInv'
<1>1. /\ stack # <<>> /\ top.at = "body" /\ stack' = <<>>
      /\ UNCHANGED <<stime, ready, lastAsk, deps, copy, version, setting, now>>
  BY DEF BodyThrows, At, signalVars, clockVars, setVars
<1>2. ConstantsInv' /\ NewsInv'
  <2>1. ~At("access", "ran")
    BY <1>1 DEF At
  <2> QED  BY <1>1, <2>1, PatientResults
<1>3. PatientStack'
  BY <1>1 DEF PatientStack, Callers
<1> QED  BY <1>2, <1>3 DEF PatientInv

----------------------------------------------------------------------------
(* The control loop and the setters.                                       *)

LEMMA PatientBegun ==
  ASSUME PlainChildren, Attentive, NEW s \in Roots, Access(s) \/ AskNeedUpdate(s)
  PROVE  PatientInv'
<1>1. /\ stack = <<>> /\ setting = NoSignal
      /\ UNCHANGED <<stime, ready, lastAsk, deps, copy, version, setting, now>>
      /\ stack' = <<CallAccess(s)>> \/ stack' = <<CallNeed(s)>>
  BY DEF Access, AskNeedUpdate, CallFromLoop, signalVars, setVars, PlainChildren
<1>2. s \in Signals /\ ConstantsInv /\ NewsInv
  BY OptionAssumption DEF Attentive, PatientInv
<1>3. PICK c \in Frames : stack' = <<c>> /\ PatientFrame(c)' /\ c.at \notin {"asked", "input"}
  <2>1. /\ \E c \in Frames : c = CallNeed(s) /\ c.at = "enter" /\ PatientFrame(c)'
        /\ \E c \in Frames : c = CallAccess(s) /\ c.at \in {"ask", "run"} /\ PatientFrame(c)'
    BY <1>2, PatientNew
  <2> QED  BY <1>1, <2>1
<1>4. PatientStack'
  BY <1>3, PatientBegins
<1>5. ConstantsInv'
  BY <1>1, <1>2 DEF ConstantsInv
<1>6. NewsInv'
  <2>1. \A t \in Patient : ~(ready[t] /\ copy[t] # {})
    BY <1>1, <1>2 DEF NewsInv, At
  <2> QED  BY <1>1, <1>2, <2>1 DEF NewsInv, AllNew, Seen
<1> QED  BY <1>4, <1>5, <1>6 DEF PatientInv

\* With nothing in progress, it is enough that what becomes ready, or is about to, has a
\* version that no patient function has seen.
LEMMA PatientIdle ==
  ASSUME PlainChildren, Attentive, stack = <<>>, stack' = <<>>,
         UNCHANGED <<stime, lastAsk, deps>>, TypeOK', now <= now',
         \A c \in Signals : Type[c] = "CONSTANT" => copy'[c] = {<<c, version'[c]>>},
         setting' # NoSignal => Type[setting'] = "CONSTANT",
         \A c \in Signals : version[c] <= version'[c],
         \A s \in Patient : copy'[s] = copy[s] /\ ready'[s] = ready[s],
         \A s \in Patient : \A c \in Range(Inputs[s]) :
           version'[c] = version[c] /\ (ready'[c] \/ setting' = c) =>
             ready[c] \/ setting = c
  PROVE  PatientInv'
<1>1. TypeOK /\ ConstantsInv /\ NewsInv
  BY DEF Attentive, PatientInv
<1>2. PatientStack'
  BY DEF PatientStack, Callers
<1>3. ConstantsInv'
  <2>1. ASSUME NEW s \in Signals PROVE stime'[s] <= now'
    <3>1. stime[s] <= now
      BY <1>1 DEF ConstantsInv
    <3>2. stime[s] \in Nat /\ now \in Nat /\ now' \in Nat /\ stime'[s] = stime[s]
      BY <1>1 DEF TypeOK
    <3> QED  BY <3>1, <3>2
  <2> QED  BY <1>1, <2>1 DEF ConstantsInv
<1>4. ASSUME NEW s \in Patient, NEW c \in Range(Inputs[s])
      PROVE  /\ \A v \in Nat : <<c, v>> \in copy'[s] => v <= version'[c]
             /\ Seen(s, c)' => Seen(s, c) /\ version'[c] = version[c]
  <2>1. /\ c \in Signals /\ version[c] \in Nat /\ version'[c] \in Nat
        /\ version[c] <= version'[c]
    BY <1>1, PatientInputs DEF TypeOK
  <2>2. copy'[s] = copy[s] /\ \A v \in Nat : <<c, v>> \in copy[s] => v <= version[c]
    BY <1>1 DEF NewsInv
  <2>3. \A v \in Nat : <<c, v>> \in copy'[s] => v <= version'[c]
    BY <2>1, <2>2
  <2>4. Seen(s, c)' => version'[c] = version[c]
    BY <2>1, <2>2 DEF Seen
  <2> QED  BY <2>2, <2>3, <2>4 DEF Seen
<1>5. NewsInv'
  <2>1. \A t \in Patient : ~(ready'[t] /\ copy'[t] # {})
    BY <1>1 DEF NewsInv, At
  <2> QED  BY <1>1, <1>4, <2>1 DEF NewsInv, AllNew
<1> QED  BY <1>2, <1>3, <1>5 DEF PatientInv

LEMMA PatientOutside ==
  ASSUME PlainChildren, Attentive, TypeOK',
         \/ Tick \/ SetConstantReady
         \/ \E s \in Forced : SetReady(s)
         \/ \E c \in Sources : SetConstant(c) \/ WriteReferenced(c)
  PROVE  PatientInv'
<1>1. /\ ConstantsInv /\ TypeOK /\ NoSignal \notin Signals
      /\ \A c \in Signals : Type[c] = "CONSTANT" => copy[c] = {<<c, version[c]>>}
      /\ setting # NoSignal => stack = <<>> /\ Type[setting] = "CONSTANT"
  BY GraphAssumption DEF Attentive, PatientInv, ConstantsInv, PlainChildren
<1>2. /\ \A s \in Patient :
           /\ s \in Signals /\ Type[s] = "FUNCTION" /\ s \notin Forced
           /\ \A c \in Range(Inputs[s]) :
                c \in Signals /\ Type[c] = "CONSTANT" /\ c \notin Forced
  BY PatientInputs DEF Patient
<1>3. \A c \in Signals : version[c] \in Nat /\ version[c] <= version[c]
  BY <1>1 DEF TypeOK
<1>4. CASE Tick
  <2>1. /\ stack = <<>> /\ stack' = <<>> /\ now' = now + 1 /\ now \in Nat
        /\ UNCHANGED <<stime, ready, lastAsk, deps, copy, version, setting>>
    BY <1>1, <1>4 DEF Tick, signalVars, callVars, setVars, TypeOK
  <2>2. now <= now'
    BY <2>1
  <2> QED  BY <1>1, <1>3, <2>1, <2>2, PatientIdle
<1>5. CASE SetConstantReady
  <2>1. /\ stack = <<>> /\ stack' = <<>> /\ setting # NoSignal /\ setting' = NoSignal
        /\ ready' = [ready EXCEPT ![setting] = TRUE]
        /\ now \in Nat /\ ready \in [Signals -> BOOLEAN]
        /\ UNCHANGED <<stime, lastAsk, deps, copy, version, now>>
    BY <1>1, <1>5 DEF SetConstantReady, callVars, clockVars, TypeOK
  <2>2. now <= now'
    BY <2>1
  <2>3. \A s \in Patient : ready'[s] = ready[s]
    BY <1>1, <1>2, <2>1
  <2>4. \A s \in Patient : \A c \in Range(Inputs[s]) :
          ready'[c] \/ setting' = c => ready[c] \/ setting = c
    BY <1>1, <1>2, <2>1
  <2> QED  BY <1>1, <1>3, <2>1, <2>2, <2>3, <2>4, PatientIdle
<1>6. ASSUME NEW s \in Forced, SetReady(s) PROVE PatientInv'
  <2>1. /\ stack = <<>> /\ stack' = <<>> /\ ready' = [ready EXCEPT ![s] = TRUE]
        /\ now \in Nat /\ ready \in [Signals -> BOOLEAN]
        /\ UNCHANGED <<stime, lastAsk, deps, copy, version, setting, now>>
    BY <1>1, <1>6 DEF SetReady, callVars, clockVars, setVars, TypeOK
  <2>2. now <= now'
    BY <2>1
  <2>3. \A t \in Patient : /\ ready'[t] = ready[t]
                           /\ \A c \in Range(Inputs[t]) : ready'[c] = ready[c]
    BY <1>2, <2>1
  <2> QED  BY <1>1, <1>3, <2>1, <2>2, <2>3, PatientIdle
<1>7. ASSUME NEW c \in Sources, SetConstant(c) PROVE PatientInv'
  <2>1. /\ stack = <<>> /\ stack' = <<>> /\ c \in Signals /\ Type[c] = "CONSTANT"
        /\ setting' = c /\ version' = [version EXCEPT ![c] = @ + 1]
        /\ copy' = [copy EXCEPT ![c] = {<<c, version[c] + 1>>}]
        /\ now \in Nat /\ version \in [Signals -> Nat] /\ copy \in [Signals -> Values]
        /\ UNCHANGED <<stime, ready, lastAsk, deps, now>>
    BY <1>1, <1>7
       DEF SetConstant, MaySet, SetTcopy, PlainChildren, callVars, clockVars, Sources, TypeOK
  <2>2. now <= now'
    BY <2>1
  <2>3. \A d \in Signals : version[d] <= version'[d] /\ (d = c => version'[d] # version[d])
    BY <2>1
  <2>4. \A d \in Signals : Type[d] = "CONSTANT" => copy'[d] = {<<d, version'[d]>>}
    BY <1>1, <2>1
  <2>5. \A s \in Patient : copy'[s] = copy[s]
    BY <1>2, <2>1
  <2> QED  BY <1>2, <2>1, <2>2, <2>3, <2>4, <2>5, PatientIdle
<1>8. ASSUME NEW c \in Sources, WriteReferenced(c) PROVE PatientInv'
  <2>1. /\ stack = <<>> /\ stack' = <<>> /\ c \in Signals /\ Type[c] = "REFERENCE"
        /\ version' = [version EXCEPT ![c] = @ + 1]
        /\ now \in Nat /\ version \in [Signals -> Nat]
        /\ UNCHANGED <<stime, ready, lastAsk, deps, copy, setting, now>>
    BY <1>1, <1>8
       DEF WriteReferenced, MaySet, PlainChildren, signalVars, callVars, clockVars, Sources,
           TypeOK
  <2>2. now <= now'
    BY <2>1
  <2>3. \A d \in Signals : /\ version[d] <= version'[d]
                           /\ Type[d] = "CONSTANT" => version'[d] = version[d]
    BY <2>1
  <2> QED  BY <1>1, <2>1, <2>2, <2>3, PatientIdle
<1> QED  BY <1>4, <1>5, <1>6, <1>7, <1>8

LEMMA PatientInit == ASSUME PlainChildren, Init PROVE PatientInv
<1>1. /\ stack = <<>> /\ setting = NoSignal /\ stime = [s \in Signals |-> 0]
      /\ version = [s \in Signals |-> 0] /\ now \in {0, 1}
      /\ copy = [s \in Signals |-> IF Type[s] = "CONSTANT" THEN {<<s, 0>>} ELSE {}]
      /\ deps = [s \in Signals |-> Reverse(DepArgs[s])]
  BY DEF Init
<1>2. ConstantsInv
  BY <1>1 DEF ConstantsInv
<1>3. \A s \in Patient : s \in Signals /\ copy[s] = {}
  BY <1>1, GraphAssumption DEF Patient
<1>4. NewsInv
  BY <1>3 DEF NewsInv, AllNew, Seen
<1>5. PatientStack
  BY <1>1 DEF PatientStack, Callers
<1> QED  BY <1>2, <1>4, <1>5 DEF PatientInv

LEMMA PatientStep ==
  ASSUME PlainChildren, Attentive, TypeOK', [Next]_vars
  PROVE  PatientInv'
<1>1. CASE Evaluate
  BY <1>1, PatientEnter, PatientDependency, PatientAsked, PatientLoopEnds, PatientAsk,
     PatientUpdate, PatientCached, PatientRuns, PatientReads, PatientBody, PatientEnds,
     PatientThrows, PatientReturned DEF Evaluate
<1>2. CASE UNCHANGED vars
  <2>1. ConstantsInv' /\ NewsInv'
    BY <1>2 DEF Attentive, PatientInv, vars, signalVars, callVars, clockVars, setVars,
                ConstantsInv, NewsInv, AllNew, Seen, At, top
  <2>2. \A f : (PatientFrame(f) => PatientFrame(f)') /\ (PatientTold(f) => PatientTold(f)')
    BY <1>2 DEF vars, signalVars, callVars, clockVars, setVars, PatientFrame, PlaceOf,
                PatientNeed, PatientAccess, ConstantAccess, Taken, PatientTold, AllNew, Seen
  <2>3. stack' = stack /\ \A f, g : Calls(f, g) => Calls(f, g)'
    BY <1>2 DEF vars, signalVars, callVars, Calls
  <2>4. PatientStack'
    BY <2>2, <2>3 DEF Attentive, PatientInv, PatientStack, Callers
  <2> QED  BY <2>1, <2>4 DEF PatientInv
<1> QED  BY <1>1, <1>2, PatientBegun, PatientOutside DEF Next

\* What runs has only new inputs.
LEMMA PatientRun ==
  ASSUME PlainChildren, Attentive, RunFunction, top.sig \in AllChildren \ Forced
  PROVE  \A i \in DOMAIN Inputs[top.sig] :
           \E c \in Below(Inputs[top.sig][i]) : <<c, version[c]>> \notin copy[top.sig]
<1>1. stack # <<>> /\ top.op = "access" /\ top.at = "run" /\ top.sig \in Patient
  BY DEF RunFunction, At, Patient
<1>2. AllNew(top.sig)
  BY <1>1, PatientTop DEF PatientFrame, PatientAccess
<1>3. ASSUME NEW i \in DOMAIN Inputs[top.sig]
      PROVE  /\ Inputs[top.sig][i] \in Range(Inputs[top.sig])
             /\ Inputs[top.sig][i] \in Below(Inputs[top.sig][i])
  <2>1. Inputs[top.sig][i] \in Range(Inputs[top.sig])
    BY <1>1, PatientInputs
  <2>2. Inputs[top.sig][i] \in Sources
    BY <1>1, <2>1, PatientInputs DEF Sources
  <2> QED  BY <2>1, <2>2 DEF Below
<1> QED  BY <1>2, <1>3 DEF AllNew, Seen

\* A function that waits for all its children, constants that it depends on, runs only when
\* each of them has a version its result was not made from; whatever the rest of the graph
\* is, and whoever throws, asks or reads in between.
THEOREM PatientWaitsForAll ==
  ASSUME PlainChildren
  PROVE  Spec => AllInputsNew
<1> DEFINE Awaited ==
      RunFunction /\ top.sig \in AllChildren \ Forced /\ copy[top.sig] # {}
        => \A i \in DOMAIN Inputs[top.sig] :
             \E c \in Below(Inputs[top.sig][i]) : <<c, version[c]>> \notin copy[top.sig]
<1>1. Init => PatientInv
  BY PatientInit
<1>2. TypeOK /\ PaceInv /\ PatientInv /\ TypeOK' /\ [Next]_vars => PatientInv'
  BY PatientStep DEF Attentive
<1>3. TypeOK /\ PaceInv /\ PatientInv => Awaited
  BY PatientRun DEF Attentive
<1> HIDE DEF Awaited
<1>4. Spec => [][Awaited]_vars
  BY <1>1, <1>2, <1>3, TypeCorrect, PaceAlways, PTL DEF Spec
<1> QED  BY <1>4 DEF AllInputsNew, Awaited
============================================================================
