---------------------------- MODULE SignalGraph -----------------------------
(***************************************************************************)
(* The on-demand evaluation of a graph of signals: Signal::access(),       *)
(* SignalTimeDependent::access() and TimeDependency::needUpdate(), which   *)
(* call each other recursively, beside the calls that give sources new     *)
(* values.  The C++ call stack is the sequence "stack" (its head is the    *)
(* running function), so that a command of the non-real-time thread, or an *)
(* exception, can come between any two steps of an evaluation.             *)
(*                                                                         *)
(* A value is the set of <<source, version>> pairs it was computed from; a *)
(* default-constructed T is {}.  Tcopy1 and Tcopy2 are one cached value:   *)
(* the buffer that Tcopy does not designate is never read before a write.  *)
(***************************************************************************)
EXTENDS Integers, Sequences, SequencesExt, Functions

CONSTANTS
  Signals,
  Type,           \* signalType: "CONSTANT", "REFERENCE" or "FUNCTION"
  TimeDep,        \* the SignalTimeDependent ones; the others are plain Signals
  Inputs,         \* the signals each Tfunction reads, in order
  DepArgs,        \* the addDependency() calls made for each signal, in order
  Kind,           \* dependencyType
  Period,         \* periodTime
  AllChildren,    \* the signals with updateFromAllChildren = true
  ByCopy,         \* signals whose Tfunction reads its inputs with accessCopy()
  MayThrow,       \* signals whose Tfunction may throw
  Roots,          \* the signals the control loop accesses
  Forced,         \* signals on which the application may call setReady()
  SetWhen,        \* when sources are set: "betweenTicks", "betweenAccesses"
                  \* or "anytime", by a thread of its own
  MaxTime,        \* bound: the last tick
  MaxVersion      \* bound: values given to each source

Sources == {s \in Signals : Type[s] # "FUNCTION"}
NoSignal == "no signal"

ASSUME GraphAssumption ==
  /\ NoSignal \notin Signals
  /\ Type \in [Signals -> {"CONSTANT", "REFERENCE", "FUNCTION"}]
  /\ TimeDep \subseteq Signals
  /\ Inputs \in [Signals -> Seq(Signals)]
  /\ DepArgs \in [Signals -> Seq(Signals)]
  /\ Kind \in [Signals -> {"TIME_DEPENDENT", "BOOL_DEPENDENT", "ALWAYS_READY"}]
  /\ Period \in [Signals -> Nat]
  /\ AllChildren \subseteq TimeDep
ASSUME OptionAssumption ==
  /\ ByCopy \subseteq Signals /\ MayThrow \subseteq Signals
  /\ Roots \subseteq Signals /\ Forced \subseteq Signals
  /\ SetWhen \in {"betweenTicks", "betweenAccesses", "anytime"}
  /\ MaxTime \in Nat /\ MaxVersion \in Nat

VARIABLES
  stime,         \* signalTime
  ready,         \* SignalBase::ready
  lastAsk,       \* lastAskForUpdate, as the Boolean it is used as
  deps,          \* dependencies
  copy,          \* *Tcopy
  stack,         \* calls in progress, innermost first
  answer,        \* what the last needUpdate() returned
  value,         \* what the last access() returned
  now,           \* the tick of the control loop
  used,          \* TRUE when a signal was accessed or asked in this tick
  version,       \* the value each source was last given, or its *Treference
  setting,       \* the source whose setConstant() has not set ready yet
  reply,         \* the outermost access() that returned, and its value
  floor          \* history: the versions set when this tick's work began

signalVars == <<stime, ready, lastAsk, deps, copy>>
callVars   == <<stack, answer, value>>   \* answer and value live until read
clockVars  == <<now, used, floor>>
setVars    == <<version, setting>>
vars == <<signalVars, callVars, clockVars, setVars, reply>>

NoReply == [sig |-> NoSignal, val |-> {}]

Init ==
  /\ stime = [s \in Signals |-> 0]
  /\ ready = [s \in Signals |-> TRUE]         \* by setConstant(), setFunction()...
  /\ lastAsk \in [Signals -> BOOLEAN]         \* no constructor initialises it
  /\ \A s \in Signals \ TimeDep : ~lastAsk[s] \* (a plain Signal has none)
  /\ deps = [s \in Signals |-> Reverse(DepArgs[s])]    \* by push_front()
  /\ copy = [s \in Signals |-> IF Type[s] = "CONSTANT" THEN {<<s, 0>>} ELSE {}]
  /\ stack = <<>> /\ answer = FALSE /\ value = {}
  /\ now \in {0, 1} /\ used = FALSE
  /\ version = [s \in Signals |-> 0] /\ setting = NoSignal
  /\ reply = NoReply /\ floor = version

----------------------------------------------------------------------------
(* The call stack.                                                         *)

Frame(op, s, at) == [op |-> op, sig |-> s, at |-> at, it |-> 1, acc |-> {}]
CallAccess(s) == Frame("access", s, IF s \in TimeDep THEN "ask" ELSE "run")
CallNeed(s)   == Frame("need", s, "enter")

top == Head(stack)
At(op, at) == stack # <<>> /\ top.op = op /\ top.at = at
Goto(f) == stack' = <<f>> \o Tail(stack)
GotoCall(f, callee) == stack' = <<callee>> \o (<<f>> \o Tail(stack))

outermost == Tail(stack) = <<>>

\* setTcopy() and switchTcopy(): v, written into the spare one of Tcopy1 and
\* Tcopy2, becomes *Tcopy.
SetTcopy(s, v) == copy' = [copy EXCEPT ![s] = v]

\* access() returns v; the outermost one replies to the application.
ReturnValue(v) ==
  /\ stack' = Tail(stack)
  /\ value' = IF outermost THEN {} ELSE v
  /\ reply' = IF outermost THEN [sig |-> top.sig, val |-> v] ELSE reply

ReturnAnswer(yes) ==
  /\ stack' = Tail(stack)
  /\ answer' = (~outermost /\ yes)

----------------------------------------------------------------------------
(* TimeDependency::needUpdate(), SignalBase::needUpdate().                 *)

\* Definitions named Mutant... are faults the checks must notice; the
\* specification uses none of them.  Here: periodTime is taken to be 1.
MutantPeriodOne ==
  /\ At("need", "enter")
  /\ LET s == top.sig
         yes == \/ ready[s]
                \/ s \in TimeDep /\ (lastAsk[s] \/ Kind[s] = "ALWAYS_READY")
         no  == \/ s \notin TimeDep
                \/ Kind[s] = "TIME_DEPENDENT" /\ now < stime[s] + 1
     IN  \/ yes /\ ReturnAnswer(TRUE)
         \/ ~yes /\ no /\ ReturnAnswer(FALSE)
         \/ ~yes /\ ~no /\ Goto([top EXCEPT !.at = "loop"]) /\ UNCHANGED answer
  /\ UNCHANGED <<signalVars, value, clockVars, setVars, reply>>

\* The early returns, and the start of the loop over the dependencies.
NeedEnter ==
  /\ At("need", "enter")
  /\ LET s == top.sig
         yes == \/ ready[s]
                \/ s \in TimeDep /\ (lastAsk[s] \/ Kind[s] = "ALWAYS_READY")
         no  == \/ s \notin TimeDep
                \/ Kind[s] = "TIME_DEPENDENT" /\ now < stime[s] + Period[s]
     IN  \/ yes /\ ReturnAnswer(TRUE)
         \/ ~yes /\ no /\ ReturnAnswer(FALSE)
         \/ ~yes /\ ~no /\ Goto([top EXCEPT !.at = "loop"]) /\ UNCHANGED answer
  /\ UNCHANGED <<signalVars, value, clockVars, setVars, reply>>

\* lastAskForUpdate = res; return res;
NeedResult(res) ==
  /\ lastAsk' = [lastAsk EXCEPT ![top.sig] = res]
  /\ ReturnAnswer(res)

\* updateFromAllChildren is not looked at in the loop.
MutantAnyChild(yes) ==
  IF ~yes
  THEN /\ Goto([top EXCEPT !.at = "loop", !.it = @ + 1])
       /\ answer' = FALSE
       /\ UNCHANGED lastAsk
  ELSE NeedResult(yes)

\* The iterator is not advanced.
MutantSameChild(yes) ==
  IF yes = (top.sig \in AllChildren)
  THEN /\ Goto([top EXCEPT !.at = "loop"])
       /\ answer' = FALSE
       /\ UNCHANGED lastAsk
  ELSE NeedResult(yes)

\* One dependency has been examined: break or continue.
NeedVerdict(yes) ==
  IF yes = (top.sig \in AllChildren)
  THEN /\ Goto([top EXCEPT !.at = "loop", !.it = @ + 1])
       /\ answer' = FALSE
       /\ UNCHANGED lastAsk
  ELSE NeedResult(yes)

\* Only asks the dependency; does not compare the times.
MutantAskOnly ==
  /\ At("need", "loop") /\ top.it <= Len(deps[top.sig])
  /\ GotoCall([top EXCEPT !.at = "asked"], CallNeed(deps[top.sig][top.it]))
  /\ UNCHANGED <<signalVars, answer, value, clockVars, setVars, reply>>

NeedDependency ==
  /\ At("need", "loop") /\ top.it <= Len(deps[top.sig])
  /\ LET d == deps[top.sig][top.it]
     IN  IF stime[d] > stime[top.sig]
         THEN NeedVerdict(TRUE)
         ELSE /\ GotoCall([top EXCEPT !.at = "asked"], CallNeed(d))
              /\ UNCHANGED <<lastAsk, answer>>
  /\ UNCHANGED <<stime, ready, deps, copy, value, clockVars, setVars, reply>>

NeedAsked ==
  /\ At("need", "asked")
  /\ NeedVerdict(answer)
  /\ UNCHANGED <<stime, ready, deps, copy, value, clockVars, setVars, reply>>

NeedLoopEnds ==
  /\ At("need", "loop") /\ top.it > Len(deps[top.sig])
  /\ NeedResult(top.sig \in AllChildren)
  /\ UNCHANGED <<stime, ready, deps, copy, value, clockVars, setVars, reply>>

----------------------------------------------------------------------------
(* SignalTimeDependent::access() around Signal::access().                  *)

AccessAsk ==
  /\ At("access", "ask")
  /\ GotoCall([top EXCEPT !.at = "asked"], CallNeed(top.sig))
  /\ UNCHANGED <<signalVars, answer, value, clockVars, setVars, reply>>

\* this->access(t1), a virtual call, instead of Signal::access(t1).
MutantVirtualCall ==
  /\ At("access", "asked") /\ answer
  /\ lastAsk' = [lastAsk EXCEPT ![top.sig] = FALSE]
  /\ answer' = FALSE
  /\ GotoCall([top EXCEPT !.at = "ran"], CallAccess(top.sig))
  /\ UNCHANGED <<stime, ready, deps, copy, value, clockVars, setVars, reply>>

AccessUpdate ==
  /\ At("access", "asked") /\ answer
  /\ lastAsk' = [lastAsk EXCEPT ![top.sig] = FALSE]
  /\ answer' = FALSE
  /\ Goto([top EXCEPT !.at = "run"])
  /\ UNCHANGED <<stime, ready, deps, copy, value, clockVars, setVars, reply>>

AccessCached ==
  /\ At("access", "asked") /\ ~answer
  /\ ReturnValue(copy[top.sig])
  /\ UNCHANGED <<signalVars, answer, clockVars, setVars>>

\* case CONSTANT: the ready flag is consumed, then the copy is read.
RunConstant ==
  /\ At("access", "run") /\ Type[top.sig] = "CONSTANT"
  /\ ready' = [ready EXCEPT ![top.sig] = FALSE]
  /\ stime' = IF ready[top.sig] THEN [stime EXCEPT ![top.sig] = now] ELSE stime
  /\ Goto([top EXCEPT !.at = "copy"])
  /\ UNCHANGED <<lastAsk, deps, copy, answer, value, clockVars, setVars, reply>>

ReadConstant ==
  /\ At("access", "copy")
  /\ Goto([top EXCEPT !.at = "ran", !.acc = copy[top.sig]])
  /\ UNCHANGED <<signalVars, answer, value, clockVars, setVars, reply>>

\* case REFERENCE: setTcopy(*Treference).
RunReference ==
  /\ At("access", "run") /\ Type[top.sig] = "REFERENCE"
  /\ LET v == {<<top.sig, version[top.sig]>>}
     IN  /\ SetTcopy(top.sig, v)
         /\ Goto([top EXCEPT !.at = "ran", !.acc = v])
  /\ stime' = [stime EXCEPT ![top.sig] = now]
  /\ UNCHANGED <<ready, lastAsk, deps, answer, value, clockVars, setVars, reply>>

\* The time of the previous tick.
MutantTimeBehind ==
  /\ At("access", "run") /\ Type[top.sig] = "FUNCTION"
  /\ stime' = [stime EXCEPT ![top.sig] = now - 1]
  /\ Goto([top EXCEPT !.at = "body"])
  /\ UNCHANGED <<ready, lastAsk, deps, copy, answer, value, clockVars, setVars, reply>>

\* case FUNCTION: signalTime is set before Tfunction is called.
RunFunction ==
  /\ At("access", "run") /\ Type[top.sig] = "FUNCTION"
  /\ stime' = [stime EXCEPT ![top.sig] = now]
  /\ Goto([top EXCEPT !.at = "body"])
  /\ UNCHANGED <<ready, lastAsk, deps, copy, answer, value, clockVars, setVars, reply>>

\* Tfunction reads its next input.
BodyReads ==
  /\ At("access", "body") /\ top.it <= Len(Inputs[top.sig])
  /\ LET d == Inputs[top.sig][top.it]
         next == [top EXCEPT !.it = @ + 1]
     IN  IF top.sig \in ByCopy
         THEN Goto([next EXCEPT !.acc = @ \cup copy[d]])
         ELSE GotoCall([next EXCEPT !.at = "input"], CallAccess(d))
  /\ UNCHANGED <<signalVars, answer, value, clockVars, setVars, reply>>

BodyGets ==
  /\ At("access", "input")
  /\ Goto([top EXCEPT !.at = "body", !.acc = @ \cup value])
  /\ value' = {}
  /\ UNCHANGED <<signalVars, answer, clockVars, setVars, reply>>

\* Tfunction returns; switchTcopy() makes its result the cached value.
BodyEnds ==
  /\ At("access", "body") /\ top.it > Len(Inputs[top.sig])
  /\ SetTcopy(top.sig, top.acc)
  /\ Goto([top EXCEPT !.at = "ran"])
  /\ UNCHANGED <<stime, ready, lastAsk, deps, answer, value, clockVars, setVars, reply>>

\* Tfunction throws; nothing on the way to the application catches it.
BodyThrows ==
  /\ At("access", "body") /\ top.sig \in MayThrow
  /\ stack' = <<>> /\ value' = {} /\ answer' = FALSE
  /\ UNCHANGED <<signalVars, clockVars, setVars, reply>>

\* ready is not cleared.
MutantStaysReady ==
  /\ At("access", "ran")
  /\ ReturnValue(top.acc)
  /\ UNCHANGED <<signalVars, answer, clockVars, setVars>>

\* Signal::access() has returned; SignalTimeDependent clears ready after it.
AccessReturns ==
  /\ At("access", "ran")
  /\ ready' = IF top.sig \in TimeDep THEN [ready EXCEPT ![top.sig] = FALSE] ELSE ready
  /\ ReturnValue(top.acc)
  /\ UNCHANGED <<stime, lastAsk, deps, copy, answer, clockVars, setVars>>

Evaluate ==
  \/ NeedEnter \/ NeedDependency \/ NeedAsked \/ NeedLoopEnds
  \/ AccessAsk \/ AccessUpdate \/ AccessCached
  \/ RunConstant \/ ReadConstant \/ RunReference
  \/ RunFunction \/ BodyReads \/ BodyGets \/ BodyEnds \/ BodyThrows
  \/ AccessReturns

----------------------------------------------------------------------------
(* The control loop.                                                       *)

\* The versions whose setter has returned.
Completed == [s \in Signals |-> IF s = setting THEN version[s] - 1 ELSE version[s]]

CallFromLoop(f) ==
  /\ stack = <<>>
  /\ setting = NoSignal \/ SetWhen = "anytime"
  /\ stack' = <<f>>
  /\ reply' = NoReply
  /\ used' = TRUE
  /\ floor' = IF used THEN floor ELSE Completed
  /\ UNCHANGED <<signalVars, answer, value, now, setVars>>

Access(s) == CallFromLoop(CallAccess(s))
AskNeedUpdate(s) == CallFromLoop(CallNeed(s))

Tick ==
  /\ stack = <<>> /\ now < MaxTime
  /\ now' = now + 1 /\ used' = FALSE
  /\ reply' = NoReply
  /\ UNCHANGED <<signalVars, callVars, setVars, floor>>

\* setReady() on a signal whose result is wanted afresh.
SetReady(s) ==
  /\ stack = <<>>
  /\ ready' = [ready EXCEPT ![s] = TRUE]
  /\ reply' = NoReply
  /\ UNCHANGED <<stime, lastAsk, deps, copy, callVars, clockVars, setVars>>

----------------------------------------------------------------------------
(* Giving a source a new value.                                            *)

MaySet ==
  /\ setting = NoSignal
  /\ SetWhen = "anytime" \/ stack = <<>>
  /\ SetWhen = "betweenTicks" => ~used

\* setConstant(): the value first, ...
SetConstant(c) ==
  /\ MaySet /\ Type[c] = "CONSTANT" /\ version[c] < MaxVersion
  /\ version' = [version EXCEPT ![c] = @ + 1]
  /\ SetTcopy(c, {<<c, version[c] + 1>>})
  /\ setting' = c
  /\ UNCHANGED <<stime, ready, lastAsk, deps, callVars, clockVars, reply>>

\* setReady() is forgotten.
MutantNotReady ==
  /\ setting # NoSignal
  /\ setting' = NoSignal
  /\ UNCHANGED <<signalVars, callVars, clockVars, version, reply>>

\* ... then setReady().
SetConstantReady ==
  /\ setting # NoSignal
  /\ ready' = [ready EXCEPT ![setting] = TRUE]
  /\ setting' = NoSignal
  /\ UNCHANGED <<stime, lastAsk, deps, copy, callVars, clockVars, version, reply>>

\* The owner of *Treference writes it; no signal is told.
WriteReferenced(c) ==
  /\ MaySet /\ Type[c] = "REFERENCE" /\ version[c] < MaxVersion
  /\ version' = [version EXCEPT ![c] = @ + 1]
  /\ UNCHANGED <<signalVars, callVars, clockVars, setting, reply>>

Next ==
  \/ Evaluate
  \/ \E s \in Roots : Access(s) \/ AskNeedUpdate(s)
  \/ \E s \in Forced : SetReady(s)
  \/ Tick
  \/ \E c \in Sources : SetConstant(c) \/ WriteReferenced(c)
  \/ SetConstantReady

Spec == Init /\ [][Next]_vars
\* A call that has begun runs on; so does setConstant().
FairSpec == Spec /\ WF_vars(Evaluate) /\ WF_vars(SetConstantReady)

----------------------------------------------------------------------------
(* Properties.                                                             *)

Values == SUBSET (Signals \X Nat)
Frames == [op : {"need", "access"}, sig : Signals,
           at : {"enter", "loop", "ask", "asked", "run", "copy", "body",
                 "input", "ran"},
           it : Nat \ {0}, acc : Values]
TypeOK ==
  /\ stime \in [Signals -> Nat]
  /\ ready \in [Signals -> BOOLEAN] /\ lastAsk \in [Signals -> BOOLEAN]
  /\ deps \in [Signals -> Seq(Signals)]
  /\ copy \in [Signals -> Values]
  /\ stack \in Seq(Frames) /\ answer \in BOOLEAN /\ value \in Values
  /\ now \in Nat /\ used \in BOOLEAN
  /\ version \in [Signals -> Nat] /\ setting \in Signals \cup {NoSignal}
  /\ reply \in [sig : Signals \cup {NoSignal}, val : Values]
  /\ floor \in [Signals -> Nat]

\* The sources that Tfunction calls reach from s.
Below(s) ==
  {c \in Sources :
     \A X \in SUBSET Signals :
       (s \in X /\ \A x \in X : Range(Inputs[x]) \subseteq X) => c \in X}

\* package.h: an entity does not recompute "if no new information is available".
\* Hence if there is new information it is used: what access() replies is
\* computed from the version that every source had when the tick began, or a
\* later one.
Fresh ==
  reply.sig # NoSignal =>
    \A c \in Below(reply.sig) :
      /\ \E v \in 0 .. version[c] : <<c, v>> \in reply.val
      /\ \A v \in 0 .. version[c] : <<c, v>> \in reply.val => v >= floor[c]

\* Conversely a function is called again only if its inputs may give another
\* value, or setReady() asked for it.
NoNeedlessRun ==
  [][RunFunction /\ copy[top.sig] # {} /\ top.sig \notin Forced
       => \E c \in Below(top.sig) : <<c, version[c]>> \notin copy[top.sig]]_vars

\* A time-dependent function runs at most once per period, whichever calls to
\* needUpdate() set its sticky flag meanwhile, unless setReady() asks for it.
OncePerPeriod ==
  [][RunFunction /\ top.sig \in TimeDep /\ Kind[top.sig] = "TIME_DEPENDENT"
       /\ ~ready[top.sig]
       => now >= stime[top.sig] + Period[top.sig]]_vars

\* With updateFromAllChildren a function runs only when each of its inputs may
\* give another value than the one its cached result was computed from.
AllInputsNew ==
  [][RunFunction /\ top.sig \in AllChildren \ Forced /\ copy[top.sig] # {}
       => \A i \in DOMAIN Inputs[top.sig] :
            \E c \in Below(Inputs[top.sig][i]) :
              <<c, version[c]>> \notin copy[top.sig]]_vars

\* Tfunction writes its result into the signal's spare buffer: no evaluation of
\* a signal starts while another evaluation of it is in progress.
NoReentry ==
  \A i, j \in DOMAIN stack :
    stack[i].op = "access" /\ stack[j].op = "access" /\ stack[i].sig = stack[j].sig
      => i = j

\* Every evaluation ends.
EvaluationEnds == stack # <<>> ~> stack = <<>>

----------------------------------------------------------------------------
(* The inductive invariant that the proof of Fresh uses.                   *)

\* The graphs on which every new value is noticed: sources are set between ticks,
\* each input of a Tfunction is a dependency of its signal, one new input is enough
\* for a new result and no period is longer than the tick.  The others lose values
\* by design, or by what the hazards of this component say.
Watchful ==
  /\ SetWhen = "betweenTicks"
  /\ AllChildren = {} /\ ByCopy = {} /\ MayThrow = {}
  /\ \A c \in Sources : Inputs[c] = <<>>
  /\ \A s \in TimeDep : Type[s] # "REFERENCE" /\ Range(Inputs[s]) \subseteq Range(DepArgs[s])
  /\ \A s \in TimeDep : Kind[s] = "TIME_DEPENDENT" => Period[s] <= 1

\* Signals whose access() may answer with an older result.
Cached == {s \in TimeDep : Type[s] = "FUNCTION"}

\* The result of s for the present values of the sources.
Current(s) == {<<c, version[c]>> : c \in Below(s)}
UpToDate(s) == copy[s] = Current(s)

\* needUpdate() says yes, whatever the times; or will when setConstant() returns.
Flagged(d) == d \notin Cached /\ (ready[d] \/ setting = d)

\* An access() of s is past its test.
RunPlaces == {"run", "copy", "body", "input", "ran"}
Running(s) ==
  \E i \in DOMAIN stack :
    stack[i].op = "access" /\ stack[i].sig = s /\ stack[i].at \in RunPlaces

\* A cached result that is not made from the inputs as they are cached will be asked
\* for again, by a flag or by a time.
Explained ==
  \A s \in Cached : ~Running(s) =>
    \/ ready[s] \/ lastAsk[s]
    \/ \E d \in Range(Inputs[s]) : Flagged(d) \/ stime[d] > stime[s]
    \/ copy[s] = UNION {copy[d] : d \in Range(Inputs[s])}

\* A result of this tick is up to date, and so are the inputs it was made from.
Today ==
  \A s \in Cached : ~Running(s) /\ ~ready[s] /\ stime[s] = now =>
    used /\ UpToDate(s) /\ \A d \in Range(Inputs[s]) : UpToDate(d)

SourcesInv ==
  /\ \A c \in Signals : Type[c] = "CONSTANT" => copy[c] = {<<c, version[c]>>}
  /\ \A s \in Signals \ TimeDep : Type[s] # "CONSTANT" => ready[s]

\* No source is set from the first call of a tick to the next tick.
ClockInv ==
  /\ deps = [s \in Signals |-> Reverse(DepArgs[s])]
  /\ \A s \in Signals : stime[s] <= now
  /\ used => setting = NoSignal /\ floor = version
  /\ stack # <<>> => used
  /\ reply.sig # NoSignal => used /\ reply.val = Current(reply.sig)

\* What a call in progress has found out.  needUpdate(): the dependencies before the
\* iterator are no reason to update.
NeedFrame(f) ==
  LET ds == deps[f.sig]
  IN  /\ f.at \in {"enter", "loop", "asked"}
      /\ f.at = "enter" => f.it = 1
      /\ f.at \in {"loop", "asked"} =>
           /\ f.sig \in TimeDep /\ ~ready[f.sig] /\ ~lastAsk[f.sig]
           /\ \A k \in 1 .. f.it - 1 :
                k \in DOMAIN ds => /\ UpToDate(ds[k]) /\ ~Flagged(ds[k])
                                   /\ stime[ds[k]] <= stime[f.sig]
      /\ f.at = "asked" => f.it \in DOMAIN ds /\ stime[ds[f.it]] <= stime[f.sig]

\* The inputs before n are up to date, and v is made from them.
Gathered(s, n, v) ==
  /\ \A k \in 1 .. n - 1 : k \in DOMAIN Inputs[s] => UpToDate(Inputs[s][k])
  /\ v = UNION {Current(Inputs[s][k]) : k \in {j \in DOMAIN Inputs[s] : j < n}}

\* access(): the inputs that were read, and the result they make.
AccessFrame(f) ==
  LET s == f.sig
  IN  /\ f.at \in {"ask", "asked"} \cup RunPlaces
      /\ f.at \in {"ask", "asked"} => s \in TimeDep
      /\ f.at \in {"ask", "asked", "run"} => f.it = 1 /\ f.acc = {}
      /\ f.at = "copy" => Type[s] = "CONSTANT" /\ ~ready[s]
      /\ f.at \in {"body", "input"} => Type[s] = "FUNCTION" /\ stime[s] = now
      /\ f.at = "body" => Gathered(s, f.it, f.acc)
      /\ f.at = "input" => f.it - 1 \in DOMAIN Inputs[s] /\ Gathered(s, f.it - 1, f.acc)
      /\ f.at = "ran" =>
           /\ f.acc = copy[s] /\ UpToDate(s)
           /\ Type[s] = "CONSTANT" => ~ready[s]
           /\ Type[s] = "FUNCTION" =>
                stime[s] = now /\ \A d \in Range(Inputs[s]) : UpToDate(d)

FrameOK(f) ==
  /\ f.op = "need" => NeedFrame(f)
  /\ f.op = "access" => AccessFrame(f)

\* What the running function has been told by the call that returned to it.
ToldOK(f) ==
  /\ f.op = "need" /\ f.at = "asked" /\ ~answer =>
       UpToDate(deps[f.sig][f.it]) /\ ~Flagged(deps[f.sig][f.it])
  /\ f.op = "access" /\ f.at = "asked" /\ ~answer => UpToDate(f.sig)
  /\ f.op = "access" /\ f.at = "input" =>
       LET d == Inputs[f.sig][f.it - 1] IN UpToDate(d) /\ value = Current(d)

\* f has called g.
Calls(f, g) ==
  \/ /\ f.op = "need" /\ f.at = "asked" /\ g.op = "need"
     /\ f.it \in DOMAIN deps[f.sig] /\ g.sig = deps[f.sig][f.it]
  \/ f.op = "access" /\ f.at = "asked" /\ g.op = "need" /\ g.sig = f.sig
  \/ /\ f.op = "access" /\ f.at = "input" /\ g.op = "access"
     /\ f.it - 1 \in DOMAIN Inputs[f.sig] /\ g.sig = Inputs[f.sig][f.it - 1]

StackInv ==
  /\ \A i \in DOMAIN stack : FrameOK(stack[i])
  /\ \A i \in DOMAIN stack : i # 1 => Calls(stack[i], stack[i - 1])
  /\ stack # <<>> => ToldOK(stack[1])

FreshInv == SourcesInv /\ ClockInv /\ Explained /\ Today /\ StackInv
=============================================================================
